---- MODULE Spec2Model ----
(***************************************************************************)
(* A model of the GOKU agent's turn-orchestration loop                     *)
(* (src/server/agent.py, GokuAgent.run_agent) together with the            *)
(* permission classifier of src/server/mcp_manager.py.                     *)
(*                                                                         *)
(* Text is modelled as TLA+ strings, on which Len, SubSeq and \o act as    *)
(* Python's len, slicing and +.  JSON values are modelled as tagged        *)
(* records: [t |-> "str", v |-> ...], [t |-> "int", v |-> ...],            *)
(* [t |-> "null"], [t |-> "list", v |-> <<...>>], [t |-> "obj", v |-> f]   *)
(* where f is a function from keys to JSON values (a Python dict).         *)
(***************************************************************************)
EXTENDS Integers, Sequences, FiniteSets, TLC

(***************************************************************************)
(* Bounds of the exploration                                                *)
(***************************************************************************)
\* router.get_response calls answered over the whole session
MaxModelCalls == 3
\* Calls of _detect_loop followed when the detector is driven alone
MaxDetectCalls == 5
\* Model calls followed in the sessions of a model that repeats itself
MaxLoopCalls == 5
\* Model calls followed in the sessions of a model that manages the task list
MaxTaskCalls == 3
\* Argument strings parsed one after the other when the parsing is driven alone
MaxParseCalls == 2
\* Fragments a streamed text is cut into when the decoding is driven alone
MaxFragments == 2
\* Tool-call fragments of one streamed response when the assembly is driven alone
MaxPieces == 3
\* Parts an accumulated content is put together from when the stripping is driven alone
MaxParts == 4
\* Model calls followed in the sessions of two connected clients
MaxTransportCalls == 3
\* Model calls followed in the sessions of a model that answers or says nothing
MaxAnswerCalls == 3

(***************************************************************************)
(* Program constants                                                        *)
(***************************************************************************)
max_turns == 50
\* A variant with a slip: the cap comes one narration later
NarrationCap_Late == 3 + 1
NarrationCap == 3
LoopThreshold == 2
QuestionTail == 5
QuestionLenNoTools == 200
QuestionLenTools == 400

(***************************************************************************)
(* Python string primitives                                                 *)
(***************************************************************************)
\* p in s
Contains(s, p) ==
    \E i \in 1..(Len(s) - Len(p) + 1) : SubSeq(s, i, i + Len(p) - 1) = p

\* s.find(p, from): the first index >= from at which p occurs, 0 if none
FindFrom(s, p, from) ==
    LET hits == {i \in from..(Len(s) - Len(p) + 1) : SubSeq(s, i, i + Len(p) - 1) = p}
    IN  IF hits = {} THEN 0 ELSE CHOOSE i \in hits : \A j \in hits : i <= j

CharAt(s, i) == SubSeq(s, i, i)

\* s[a-1:b], the slice clipped to the string as Python clips it
Slice(s, a, b) ==
    LET hi == IF b > Len(s) THEN Len(s) ELSE b
    IN  IF a > hi THEN "" ELSE SubSeq(s, a, hi)

IsSpace(c) == c \in {" ", "\n", "\t", "\r"}

UpperAlphabet == "ABCDEFGHIJKLMNOPQRSTUVWXYZ"
LowerAlphabet == "abcdefghijklmnopqrstuvwxyz"

LowerChar(c) ==
    LET hits == {i \in 1..Len(UpperAlphabet) : CharAt(UpperAlphabet, i) = c}
    IN  IF hits = {} THEN c ELSE CharAt(LowerAlphabet, CHOOSE i \in hits : TRUE)

\* s.lower()
RECURSIVE Lower(_)
Lower(s) ==
    IF Len(s) = 0 THEN ""
    ELSE LowerChar(CharAt(s, 1)) \o Lower(Slice(s, 2, Len(s)))

\* s.strip()
Strip(s) ==
    LET keep == {i \in 1..Len(s) : ~IsSpace(CharAt(s, i))}
    IN  IF keep = {} THEN ""
        ELSE SubSeq(s, CHOOSE i \in keep : \A j \in keep : i <= j,
                       CHOOSE i \in keep : \A j \in keep : i >= j)

\* s[-n:]
Tail_n(s, n) == IF Len(s) <= n THEN s ELSE SubSeq(s, Len(s) - n + 1, Len(s))

\* s.split()[0] for a string with at least one non-space character
FirstToken(s) ==
    LET t == Strip(s)
        sp == {i \in 1..Len(t) : IsSpace(CharAt(t, i))}
    IN  IF sp = {} THEN t
        ELSE Slice(t, 1, (CHOOSE i \in sp : \A j \in sp : i <= j) - 1)

\* s.split(sep, 1)[0]
SplitHead(s, sep) ==
    LET at == FindFrom(s, sep, 1)
    IN  IF at = 0 THEN s ELSE Slice(s, 1, at - 1)

(***************************************************************************)
(* JSON: tool-call argument text, json.loads and json.dumps                 *)
(*                                                                          *)
(* Argument text, as the router delivers it, is either [k |-> "bad"] (not   *)
(* JSON) or [k |-> "json", v |-> x], the JSON text of value x.  A JSON      *)
(* string is [t |-> "str", v |-> s] when its content s is ordinary text     *)
(* (never itself JSON) and [t |-> "enc", v |-> x] when its content is the   *)
(* JSON text of x (a double-encoded argument).                              *)
(***************************************************************************)
JStr(s) == [t |-> "str", v |-> s]
JInt(n) == [t |-> "int", v |-> n]
JBool(b) == [t |-> "bool", v |-> b]
JFloat(digits) == [t |-> "float", v |-> digits]
JNull == [t |-> "null"]
JList(q) == [t |-> "list", v |-> q]
JObj(f) == [t |-> "obj", v |-> f]
JEnc(x) == [t |-> "enc", v |-> x]
JsonText(x) == [k |-> "json", v |-> x]
BadText == [k |-> "bad"]

\* Python's None, returned by dict.get for a missing key
None == [t |-> "none"]
EmptyDict == [key \in {} |-> None]

\* isinstance(x, str) / isinstance(x, dict)
IsPyStr(x) == x.t \in {"str", "enc"}
IsPyDict(x) == x.t = "obj"

\* d.get(key, default) on a dict d (a function from keys to JSON values)
DictGet(d, key, default) == IF key \in DOMAIN d THEN d[key] ELSE default

\* json.loads raises on this text / on the content of this Python string
LoadsRaises(text) == text.k = "bad"
LoadsStrRaises(x) == x.t # "enc"

\* A variant with a slip: the second json.loads stands outside the try block
ParseToolArgs_SecondUncaught(raw_args) ==
    IF LoadsRaises(raw_args) THEN [raised |-> FALSE, value |-> JObj(EmptyDict)]
    ELSE LET first == raw_args.v
         IN  IF IsPyStr(first)
             THEN IF LoadsStrRaises(first) THEN [raised |-> TRUE, value |-> first]
                  ELSE [raised |-> FALSE,
                        value |-> IF IsPyDict(first.v) THEN first.v ELSE JObj(EmptyDict)]
             ELSE [raised |-> FALSE,
                   value |-> IF IsPyDict(first) THEN first ELSE JObj(EmptyDict)]

\* Robust argument parsing of the tool loop: json.loads, a second json.loads
\* when the first gave a string, {} for anything that is not a dict, and {}
\* from the except branch when either json.loads raised.  The value bound to
\* tool_args, and whether an exception left the block.
ParseToolArgs(raw_args) ==
    IF LoadsRaises(raw_args) THEN [raised |-> FALSE, value |-> JObj(EmptyDict)]
    ELSE LET first == raw_args.v
         IN  IF IsPyStr(first)
             THEN IF LoadsStrRaises(first) THEN [raised |-> FALSE, value |-> JObj(EmptyDict)]
                  ELSE [raised |-> FALSE,
                        value |-> IF IsPyDict(first.v) THEN first.v ELSE JObj(EmptyDict)]
             ELSE [raised |-> FALSE,
                   value |-> IF IsPyDict(first) THEN first ELSE JObj(EmptyDict)]

\* tool_args, as the members of the dict
ParseArgs(raw_args) == ParseToolArgs(raw_args).value.v

\* get_tool_action: the "action" member of the (possibly double-encoded)
\* arguments, None when parsing or the lookup raises
get_tool_action(tc) ==
    LET args == tc.arguments
    IN  IF LoadsRaises(args) THEN None
        ELSE LET first == args.v
                 data == IF IsPyStr(first) /\ ~LoadsStrRaises(first) THEN first.v ELSE first
             IN  IF IsPyStr(first) /\ LoadsStrRaises(first) THEN None
                 ELSE IF IsPyDict(data) THEN DictGet(data.v, "action", None)
                 ELSE None

\* The keys that occur in the model's argument objects, in the order
\* json.dumps(sort_keys=True) writes them
KeyOrder == <<"action", "command", "index", "query", "status", "tasks", "timeout">>

RECURSIVE JoinWith(_, _)
JoinWith(parts, sep) ==
    IF Len(parts) = 0 THEN ""
    ELSE IF Len(parts) = 1 THEN parts[1]
    ELSE parts[1] \o sep \o JoinWith(Tail(parts), sep)

\* The keys of the dicts run_agent builds itself, in insertion order
InsertionOrder == <<"status", "message", "formatted", "stdout">>

\* json.dumps with Python's default separators, the members of an object
\* written in the given key order
RECURSIVE JsonDumpsOrdered(_, _)
JsonDumpsOrdered(x, order) ==
    CASE x.t = "str" -> "\"" \o x.v \o "\""
      [] x.t = "int" -> ToString(x.v)
      [] x.t = "bool" -> IF x.v THEN "true" ELSE "false"
      [] x.t = "float" -> x.v
      [] x.t = "null" -> "null"
      [] x.t = "list" ->
           "[" \o JoinWith([i \in 1..Len(x.v) |-> JsonDumpsOrdered(x.v[i], order)], ", ") \o "]"
      [] x.t = "obj" ->
           LET keys == SelectSeq(order, LAMBDA key : key \in DOMAIN x.v)
           IN  "{" \o JoinWith([i \in 1..Len(keys) |->
                          "\"" \o keys[i] \o "\": " \o JsonDumpsOrdered(x.v[keys[i]], order)], ", ")
                   \o "}"

\* json.dumps(x, sort_keys=True)
JsonDumpsSorted(x) == JsonDumpsOrdered(x, KeyOrder)
\* json.dumps(x)
JsonDumps(x) == JsonDumpsOrdered(x, InsertionOrder)

\* tool_hash = f"{tool_name}:{json.dumps(tool_args, sort_keys=True)}"
ToolHash(tool_name, tool_args) == tool_name \o ":" \o JsonDumpsSorted(JObj(tool_args))

\* tool_name_from_hash = h.split(":", 1)[0]
ToolNameFromHash(h) == SplitHead(h, ":")

(***************************************************************************)
(* MCPManager.is_sensitive                                                  *)
(***************************************************************************)
dangerous_commands == {"sudo", "mkfs", "fdisk", "parted", "shutdown", "reboot", "poweroff"}
catastrophic_patterns ==
    {"rm -rf /", "rm -rf ~", "rm -rf .", "rm -rf /home", "rm -rf /etc", "rm -rf /var",
     "rm -rf * /"}
system_manipulation ==
    {"dd if=", "> /dev/", ":(){ :|:& };:", "chmod -R 777 /", "chown -R root /"}

\* args.get("command", "").strip() raises when the member is not a string
IsSensitiveRaises(tool_name, args) ==
    /\ tool_name = "bash"
    /\ "command" \in DOMAIN args
    /\ args["command"].t # "str"

is_sensitive(tool_name, args) ==
    IF tool_name = "bash"
    THEN LET cmd == Strip(DictGet(args, "command", JStr("")).v)
         IN  IF cmd = "" THEN FALSE
             ELSE \/ FirstToken(cmd) \in dangerous_commands
                  \/ \E pattern \in catastrophic_patterns : Contains(cmd, pattern)
                  \/ \E pattern \in system_manipulation : Contains(cmd, pattern)
    ELSE FALSE

(***************************************************************************)
(* The free-text approval heuristic of run_agent                            *)
(***************************************************************************)
AffirmativeTokens ==
    {"yes", "y", "ok", "okay", "sure", "go", "proceed", "approve", "do it", "fine",
     "go ahead", "go on"}
NegativeTokens == {"no", "n", "stop", "cancel", "don't"}

\* lower_text = user_text.lower().strip()
LowerText(user_text) == Strip(Lower(user_text))

\* any(x in lower_text for x in [...]) : containment anywhere in the text
MatchesAffirmative(user_text) ==
    \E x \in AffirmativeTokens : Contains(LowerText(user_text), x)
MatchesNegative(user_text) ==
    \E x \in NegativeTokens : Contains(LowerText(user_text), x)

(***************************************************************************)
(* Thought-tag stripping and the question heuristic                         *)
(***************************************************************************)
ThoughtTags == {"thought", "think"}

\* re.sub(r'<(thought|think)>.*?(</\1>|$)', '', s, flags=re.DOTALL): the
\* leftmost opening tag is removed up to its first closing tag; without one,
\* up to the end of the string ($ also matches before a final newline).
RECURSIVE StripThoughts(_)
StripThoughts(s) ==
    LET opens == {i \in 1..Len(s) : \E tag \in ThoughtTags :
                      Slice(s, i, i + Len(tag) + 1) = "<" \o tag \o ">"}
    IN  IF opens = {} THEN s
        ELSE LET i == CHOOSE a \in opens : \A b \in opens : a <= b
                 tag == CHOOSE g \in ThoughtTags : Slice(s, i, i + Len(g) + 1) = "<" \o g \o ">"
                 inner == i + Len(tag) + 2
                 closer == "</" \o tag \o ">"
                 close == FindFrom(s, closer, inner)
             IN  IF close # 0
                 THEN Slice(s, 1, i - 1)
                        \o StripThoughts(Slice(s, close + Len(closer), Len(s)))
                 ELSE IF Len(s) >= inner /\ CharAt(s, Len(s)) = "\n"
                 THEN Slice(s, 1, i - 1) \o "\n"
                 ELSE Slice(s, 1, i - 1)

\* clean_content = re.sub(...).strip()
CleanContent(full_content) == Strip(StripThoughts(full_content))

(***************************************************************************)
(* The rolling buffer parser of the streaming loop                          *)
(***************************************************************************)
\* The opening tags of s at or after position from
OpeningTags(s, from) ==
    {i \in from..Len(s) : \E tag \in ThoughtTags :
         Slice(s, i, i + Len(tag) + 1) = "<" \o tag \o ">"}

\* list(re.finditer(r'<(thought|think)>(.*?)(?:</\1>|$)', s, re.DOTALL))[-1]:
\* the matches are taken left to right without overlap; group(2) of the last
\* one, which ends at its closing tag or, unclosed, at the end of the string
RECURSIVE LastMatch(_, _, _)
LastMatch(s, from, best) ==
    LET opens == OpeningTags(s, from)
    IN  IF opens = {} THEN best
        ELSE LET i == CHOOSE a \in opens : \A b \in opens : a <= b
                 tag == CHOOSE g \in ThoughtTags : Slice(s, i, i + Len(g) + 1) = "<" \o g \o ">"
                 inner == i + Len(tag) + 2
                 closer == "</" \o tag \o ">"
                 close == FindFrom(s, closer, inner)
             IN  IF close # 0
                 THEN LastMatch(s, close + Len(closer),
                                [found |-> TRUE, group2 |-> Slice(s, inner, close - 1)])
                 ELSE IF Len(s) >= inner /\ CharAt(s, Len(s)) = "\n"
                 THEN [found |-> TRUE, group2 |-> Slice(s, inner, Len(s) - 1)]
                 ELSE [found |-> TRUE, group2 |-> Slice(s, inner, Len(s))]
NoMatch == [found |-> FALSE, group2 |-> ""]

\* re.sub(r'</?(thought|think)>?.*$', '', raw_thought, flags=re.IGNORECASE).strip():
\* from the first tag start that has no line break between it and the end of
\* the string, everything is removed
TagStarts(s) ==
    {i \in 1..Len(s) : \E tag \in ThoughtTags :
         \/ Lower(Slice(s, i, i + Len(tag))) = "<" \o tag
         \/ Lower(Slice(s, i, i + Len(tag) + 1)) = "</" \o tag}
Scrub(raw_thought) ==
    LET starts == {i \in TagStarts(raw_thought) :
                      ~Contains(Slice(raw_thought, i, Len(raw_thought) - 1), "\n")}
    IN  IF starts = {} THEN Strip(raw_thought)
        ELSE LET i == CHOOSE a \in starts : \A b \in starts : a <= b
             IN  Strip(Slice(raw_thought, 1, i - 1))

\* One chunk of the stream with text content: the buffer and the current
\* thought after it, and the thought event it yields, if any
DecodeChunk(full_content, current_thought, text_chunk) ==
    LET full == full_content \o text_chunk
        last_match == LastMatch(full, 1, NoMatch)
        scrubbed_thought == IF last_match.found THEN Scrub(last_match.group2) ELSE ""
    IN  IF text_chunk = "" \/ scrubbed_thought = ""
        THEN [full_content |-> full, current_thought |-> current_thought, yielded |-> <<>>]
        ELSE [full_content |-> full, current_thought |-> scrubbed_thought,
              yielded |-> <<[type |-> "thought", content |-> scrubbed_thought]>>]

\* The whole stream: chunk after chunk from an empty buffer
RECURSIVE DecodeStream(_, _, _, _)
DecodeStream(full_content, current_thought, yielded, chunks) ==
    IF Len(chunks) = 0
    THEN [full_content |-> full_content, current_thought |-> current_thought,
          yielded |-> yielded]
    ELSE LET step == DecodeChunk(full_content, current_thought, Head(chunks))
         IN  DecodeStream(step.full_content, step.current_thought,
                          yielded \o step.yielded, Tail(chunks))

\* "?" in clean_content.strip()[-5:] and len(clean_content) < limit
\* A variant with a slip: nothing is taken as a question
IsQuestion_Never(clean_content, limit) == FALSE

IsQuestion(clean_content, limit) ==
    /\ Contains(Tail_n(Strip(clean_content), QuestionTail), "?")
    /\ Len(clean_content) < limit

\* hashlib.md5((content + str(len(tool_calls))).encode()).hexdigest(): the
\* digest is taken to be collision-free, so it is the text it digests
ResponseHash(content, tool_calls) == content \o ToString(Len(tool_calls))

(***************************************************************************)
(* Fixed texts of run_agent                                                 *)
(***************************************************************************)
SystemPrompt == "You are GOKU"
FirstThought == "..."
LoopThought == "Loop detected - breaking out to ask user for guidance."
LoopMessage == "I notice I may be stuck in a loop. What do you actually need from me right now?"
LoopLesson == "Loop detected and broken - user redirected"
EmptyResponseMessage ==
    "_[System: Received empty response from model. Please try a more specific query.]_"
NudgeText ==
    "[SYSTEM: Progress acknowledged. Proceed with your next step using a tool call NOW.]"
WaitingText ==
    "[SYSTEM: Waiting for user response to the above question before proceeding with tools.]"
PlanMessage ==
    "I've created a plan for this request. Please review the plan above. Shall I proceed?"
PermissionInstruction ==
    "SYSTEM_REQUIREMENT: You must explain what this command does and ask the user for explicit permission to run it. stop_and_ask_user()"

(***************************************************************************)
(* _format_plan                                                             *)
(***************************************************************************)
\* status_emoji, the glyphs written by name
StatusEmoji(status) ==
    CASE status = JStr("todo") -> "(hourglass)"
      [] status = JStr("in_progress") -> "(arrows)"
      [] status = JStr("done") -> "(check)"
      [] OTHER -> "(hourglass)"

\* str(x) inside an f-string
PyStr(x) ==
    CASE x.t = "str" -> x.v
      [] x.t = "int" -> ToString(x.v)
      [] x.t = "bool" -> IF x.v THEN "True" ELSE "False"
      [] x.t = "float" -> x.v
      [] x.t = "none" -> "None"
      [] x.t = "null" -> "None"
      [] OTHER -> JsonDumpsSorted(x)

\* task.get(...) raises for a task that is not a dict
FormatPlanRaises(tasks) == \E i \in 1..Len(tasks) : ~IsPyDict(tasks[i])

PlanRow(i, task) ==
    LET status == DictGet(task.v, "status", JStr("todo"))
        desc == DictGet(task.v, "desc", DictGet(task.v, "title", JStr("Untitled")))
    IN  "| " \o ToString(i) \o " | " \o StatusEmoji(status) \o " " \o PyStr(status)
             \o " | " \o PyStr(desc) \o " |"

_format_plan(tasks) ==
    IF Len(tasks) = 0 THEN "No tasks planned."
    ELSE JoinWith(<<"\n---\n", "## TASK PLAN\n", "---\n",
                    "| # | Status | Task |", "|---|--------|------|">>
                  \o [i \in 1..Len(tasks) |-> PlanRow(i, tasks[i])]
                  \o <<"\n---\n">>, "\n")

(***************************************************************************)
(* The environment: user utterances, model responses, tool outcomes         *)
(***************************************************************************)
\* What the user sends.  The approval heuristic reads the utterance only while
\* a permission request is pending, so every kind of reply is offered then;
\* with nothing pending the wording is immaterial and the user sends a request
\* (one that happens to hold an affirmative word) or nothing.
Requests == {"", "ok, delete everything"}
Replies == {"", "yes go ahead", "no", "No problem, go ahead", "no way", "what?"}
Utterances == Requests \cup Replies
UserSays(pending) == IF pending = {} THEN Requests ELSE Replies

BashCall(command) ==
    [name |-> "bash", arguments |-> JsonText(JObj([command |-> JStr(command)]))]
\* the same call with its argument object double-encoded
BashCallEncoded(command) ==
    [name |-> "bash", arguments |-> JsonText(JEnc(JObj([command |-> JStr(command)])))]
PlanCall(new_tasks) ==
    [name |-> "manage_tasks",
     arguments |-> JsonText(JObj([action |-> JStr("add"), tasks |-> new_tasks]))]
TaskA == JObj([desc |-> JStr("build"), status |-> JStr("todo")])

\* What one streamed model response decodes to: the accumulated content and
\* the tool calls in stream-index order
Responses ==
    { [content |-> "<think>hm</think>Done.", tool_calls |-> <<>>],
      [content |-> "", tool_calls |-> <<>>],
      [content |-> "Is that ok?", tool_calls |-> <<>>],
      [content |-> "", tool_calls |-> <<BashCall("rm -rf /")>>],
      [content |-> "", tool_calls |-> <<BashCallEncoded("rm -rf /")>>],
      [content |-> "", tool_calls |-> <<BashCall("sudo reboot"), BashCall("ls")>>],
      [content |-> "Planning.", tool_calls |-> <<BashCall("rm -rf /"), PlanCall(JList(<<TaskA>>))>>],
      [content |-> "", tool_calls |-> <<PlanCall(JNull)>>],
      [content |-> "Shall I?", tool_calls |-> <<BashCall("ls")>>] }

\* mcp_manager.call_tool returns a result or raises
ToolOutcomes == {"ok", "raise"}
ToolResult == JObj([stdout |-> JStr("out")])
ToolErrorText == "boom"
\* str(e) of what manage_tasks raises on a plan it cannot read
TaskErrorText == "TypeError"
\* no exception has left the invocation
NoException == ""

\* What router.get_response raises, as LiteRouter words it: an
\* authentication failure, or any other error raised again as it came
AuthErrorText == "Authentication Failed. Please check your API key."
OtherErrorText == "Connection reset"
RouterErrors == {AuthErrorText, OtherErrorText}
\* where the router fails: when the response is requested, or while its
\* stream is consumed
RouterStages == {"request", "stream"}

(***************************************************************************)
(* State                                                                    *)
(***************************************************************************)
VARIABLES
    history,                    \* self.history
    tasks,                      \* self.tasks
    pending_hashes,             \* self.pending_hashes
    approved_hashes,            \* self.approved_hashes
    trusted_tools,              \* self.trusted_tools
    _system_instruction_count,  \* loop counter
    _last_response_hash,        \* last fingerprint
    _loop_detected,
    _narration_retries,
    _lessons_learned,
    pc,                         \* where run_agent stands: idle, loop, tools, commit
    turn,                       \* the for-loop variable
    user_text,                  \* the utterance of the running invocation
    active_tool_calls,          \* the calls of this turn still to process
    events,                     \* what the running invocation has yielded
    callLog,                    \* the tool calls it has processed, and how
    memoryAdds,                 \* memory.add_memory calls of the invocation
    modelCalls,                 \* router.get_response calls of the session
    outcome,                    \* running, returned or raised
    exitPath,                   \* how the invocation's turn loop ended
    exc,                        \* str(e) of the exception that left run_agent
    probe                       \* calls made and results seen when one method is driven alone

vars == <<history, tasks, pending_hashes, approved_hashes, trusted_tools,
          _system_instruction_count, _last_response_hash, _loop_detected,
          _narration_retries, _lessons_learned, pc, turn, user_text,
          active_tool_calls, events, callLog, memoryAdds, modelCalls, outcome,
          exitPath, exc, probe>>

\* everything but the record of the driver
agentVars == <<history, tasks, pending_hashes, approved_hashes, trusted_tools,
               _system_instruction_count, _last_response_hash, _loop_detected,
               _narration_retries, _lessons_learned, pc, turn, user_text,
               active_tool_calls, events, callLog, memoryAdds, modelCalls, outcome,
               exitPath, exc>>

permission == <<pending_hashes, approved_hashes, trusted_tools>>
detector == <<_system_instruction_count, _last_response_hash, _loop_detected>>

NoHash == "None"

Msg(role, content) ==
    [role |-> role, content |-> content, tool_calls |-> <<>>, tool_call_id |-> 0, name |-> ""]
AssistantMsg(content, tool_calls) ==
    [role |-> "assistant", content |-> content, tool_calls |-> tool_calls,
     tool_call_id |-> 0, name |-> ""]
ToolMsg(tool_call, result) ==
    [role |-> "tool", content |-> JsonDumps(result), tool_calls |-> <<>>,
     tool_call_id |-> tool_call.id, name |-> tool_call.name]

Thought(content) == [type |-> "thought", content |-> content]
Message(content) == [type |-> "message", role |-> "agent", content |-> content]
ToolCallEvent(name, args) == [type |-> "tool_call", name |-> name, args |-> args]
ToolResultEvent(name, content) == [type |-> "tool_result", name |-> name, content |-> content]
TaskUpdate(task_list) == [type |-> "task_update", tasks |-> task_list]

\* agent = GokuAgent(): the one agent of the process, with no invocation running
Constructed ==
    /\ history = <<>>
    /\ tasks = <<>>
    /\ pending_hashes = {}
    /\ approved_hashes = {}
    /\ trusted_tools = {}
    /\ _system_instruction_count = 0
    /\ _last_response_hash = NoHash
    /\ _loop_detected = FALSE
    /\ _narration_retries = 0
    /\ _lessons_learned = <<>>
    /\ pc = "idle"
    /\ turn = 0
    /\ user_text = ""
    /\ active_tool_calls = <<>>
    /\ events = <<>>
    /\ callLog = <<>>
    /\ memoryAdds = 0
    /\ modelCalls = 0
    /\ outcome = "returned"
    /\ exitPath = "none"
    /\ exc = NoException

Init ==
    /\ Constructed
    /\ probe = <<>>

(***************************************************************************)
(* run_agent, before the turn loop                                          *)
(***************************************************************************)
\* Variants of the security check with a slip: the tool names are not
\* trusted on approval; the negative words are tried first
ResolvePending_NoTrust(text, pend, appr, trust) ==
    IF pend = {}
    THEN [pending |-> pend, approved |-> appr, trusted |-> trust]
    ELSE IF MatchesAffirmative(text)
    THEN [pending |-> {}, approved |-> appr \cup pend, trusted |-> trust]
    ELSE IF MatchesNegative(text)
    THEN [pending |-> {}, approved |-> appr, trusted |-> trust]
    ELSE [pending |-> pend, approved |-> appr, trusted |-> trust]
ResolvePending_NegativeFirst(text, pend, appr, trust) ==
    IF pend = {}
    THEN [pending |-> pend, approved |-> appr, trusted |-> trust]
    ELSE IF MatchesNegative(text)
    THEN [pending |-> {}, approved |-> appr, trusted |-> trust]
    ELSE IF MatchesAffirmative(text)
    THEN [pending |-> {},
          approved |-> appr \cup pend,
          trusted |-> trust \cup {ToolNameFromHash(h) : h \in pend}]
    ELSE [pending |-> pend, approved |-> appr, trusted |-> trust]
\* the approved hashes stay pending
ResolvePending_KeepsPending(text, pend, appr, trust) ==
    IF pend = {}
    THEN [pending |-> pend, approved |-> appr, trusted |-> trust]
    ELSE IF MatchesAffirmative(text)
    THEN [pending |-> pend,
          approved |-> appr \cup pend,
          trusted |-> trust \cup {ToolNameFromHash(h) : h \in pend}]
    ELSE IF MatchesNegative(text)
    THEN [pending |-> {}, approved |-> appr, trusted |-> trust]
    ELSE [pending |-> pend, approved |-> appr, trusted |-> trust]

\* The conversational security check: what the utterance does to the
\* pending, approved and trusted sets
ResolvePending(text, pend, appr, trust) ==
    IF pend = {}
    THEN [pending |-> pend, approved |-> appr, trusted |-> trust]
    ELSE IF MatchesAffirmative(text)
    THEN [pending |-> {},
          approved |-> appr \cup pend,
          trusted |-> trust \cup {ToolNameFromHash(h) : h \in pend}]
    ELSE IF MatchesNegative(text)
    THEN [pending |-> {}, approved |-> appr, trusted |-> trust]
    ELSE [pending |-> pend, approved |-> appr, trusted |-> trust]

\* What memory.search_memory finds: nothing, or an earlier note
NothingFound == JList(<<>>)
Contexts == {NothingFound, JList(<<JStr("old note")>>)}

\* json.dumps(context) and the last five lessons
ContextStr(context, lessons) ==
    LET last5 == SubSeq(lessons, IF Len(lessons) > 5 THEN Len(lessons) - 4 ELSE 1, Len(lessons))
    IN  IF Len(lessons) > 0
        THEN JsonDumps(context) \o "\n\nRecent Lessons Learned:\n"
                  \o JoinWith([i \in 1..Len(last5) |-> "- " \o last5[i].lesson], "\n")
        ELSE JsonDumps(context)

FullSystemPrompt(context, lessons) ==
    SystemPrompt \o " Retrieved Context: " \o ContextStr(context, lessons)

\* A variant with a slip: a history that has messages gets a new system
\* message appended
WithSystemPrompt_Appends(hist, prompt) ==
    IF Len(hist) = 0 THEN <<Msg("system", prompt)>>
    ELSE Append(hist, Msg("system", prompt))

\* The system message is created in an empty history and otherwise rewritten
WithSystemPrompt(hist, prompt) ==
    IF Len(hist) = 0 THEN <<Msg("system", prompt)>>
    ELSE IF hist[1].role = "system" THEN [hist EXCEPT ![1].content = prompt]
    ELSE hist

\* A variant with a slip: the empty utterance is let through
ReturnsEarly_Never(text) == FALSE

\* if not user_text: return
ReturnsEarly(text) == text = ""

\* run_agent from its call to its first model call
run_agent(text, context) ==
    /\ pc = "idle"
    /\ IF ReturnsEarly(text)
       THEN UNCHANGED agentVars
       ELSE LET resolved == ResolvePending(text, pending_hashes, approved_hashes, trusted_tools)
            IN  /\ _narration_retries' = 0
                /\ _system_instruction_count' = 0
                /\ _loop_detected' = FALSE
                /\ pending_hashes' = resolved.pending
                /\ approved_hashes' = resolved.approved
                /\ trusted_tools' = resolved.trusted
                /\ history' = Append(WithSystemPrompt(history,
                                                 FullSystemPrompt(context, _lessons_learned)),
                                     Msg("user", text))
                /\ user_text' = text
                /\ pc' = "loop"
                /\ turn' = 0
                /\ active_tool_calls' = <<>>
                /\ events' = <<>>
                /\ callLog' = <<>>
                /\ memoryAdds' = 0
                /\ outcome' = "running"
                /\ exitPath' = "none"
                /\ exc' = NoException
                /\ UNCHANGED <<tasks, _last_response_hash, _lessons_learned, modelCalls>>

RunAgent(text, context) == run_agent(text, context) /\ UNCHANGED probe

\* A variant with a slip: the reset forgets the trusted tools as well
clear_history_ForgetsTrust ==
    /\ pc = "idle"
    /\ history' = <<>>
    /\ tasks' = <<>>
    /\ _system_instruction_count' = 0
    /\ _last_response_hash' = NoHash
    /\ _loop_detected' = FALSE
    /\ trusted_tools' = {}
    /\ UNCHANGED <<pending_hashes, approved_hashes, _narration_retries, _lessons_learned, pc,
                   turn, user_text, active_tool_calls, events, callLog, memoryAdds,
                   modelCalls, outcome, exitPath, exc, probe>>

clear_history ==
    /\ pc = "idle"
    /\ history' = <<>>
    /\ tasks' = <<>>
    /\ _system_instruction_count' = 0
    /\ _last_response_hash' = NoHash
    /\ _loop_detected' = FALSE
    /\ UNCHANGED <<permission, _narration_retries, _lessons_learned, pc, turn, user_text,
                   active_tool_calls, events, callLog, memoryAdds, modelCalls, outcome,
                   exitPath, exc, probe>>

(***************************************************************************)
(* One turn: the model call, the loop check and the turn's decision         *)
(***************************************************************************)
\* A variant with a slip: a differing fingerprint does not reset the counter
_detect_loop_KeepsCount(content, tool_calls) ==
    LET current_hash == ResponseHash(content, tool_calls)
        count == IF current_hash = _last_response_hash
                 THEN _system_instruction_count + 1 ELSE _system_instruction_count
    IN  [count |-> count,
         last |-> current_hash,
         flag |-> IF count >= LoopThreshold THEN TRUE ELSE _loop_detected,
         result |-> count >= LoopThreshold]

\* A variant with a slip: the loop is declared one repeat later
_detect_loop_Late(content, tool_calls) ==
    LET current_hash == ResponseHash(content, tool_calls)
        count == IF current_hash = _last_response_hash
                 THEN _system_instruction_count + 1 ELSE 0
    IN  [count |-> count,
         last |-> current_hash,
         flag |-> IF count > LoopThreshold THEN TRUE ELSE _loop_detected,
         result |-> count > LoopThreshold]

\* _detect_loop: the counter, the last fingerprint, the flag and the result
_detect_loop(content, tool_calls) ==
    LET current_hash == ResponseHash(content, tool_calls)
        count == IF current_hash = _last_response_hash
                 THEN _system_instruction_count + 1 ELSE 0
    IN  [count |-> count,
         last |-> IF current_hash = _last_response_hash
                  THEN _last_response_hash ELSE current_hash,
         flag |-> IF count >= LoopThreshold THEN TRUE ELSE _loop_detected,
         result |-> count >= LoopThreshold]

\* The id the provider gives the i-th tool call of the n-th response
CallId(n, i) == 10 * n + i

\* planning_call / active_tool_calls: a manage_tasks add call is processed alone
IsPlanningCall(tc) == tc.name = "manage_tasks" /\ get_tool_action(tc) = JStr("add")
ActiveToolCalls(tool_calls) ==
    LET plans == {i \in 1..Len(tool_calls) : IsPlanningCall(tool_calls[i])}
    IN  IF plans = {} THEN tool_calls
        ELSE <<tool_calls[CHOOSE i \in plans : \A j \in plans : i <= j]>>

\* break: leave the turn loop for the memory commit
EndLoop(path) ==
    /\ pc' = "commit"
    /\ exitPath' = path
    /\ turn' = turn
    /\ active_tool_calls' = <<>>

\* A variant with a slip: the range has one turn more
NextTurn_OneMore ==
    /\ turn' = turn + 1
    /\ active_tool_calls' = <<>>
    /\ IF turn + 1 <= max_turns
       THEN pc' = "loop" /\ exitPath' = exitPath
       ELSE pc' = "commit" /\ exitPath' = "turn_bound"

\* continue / end of the loop body: the next turn, if the range has one
NextTurn ==
    /\ turn' = turn + 1
    /\ active_tool_calls' = <<>>
    /\ IF turn + 1 < max_turns
       THEN pc' = "loop" /\ exitPath' = exitPath
       ELSE pc' = "commit" /\ exitPath' = "turn_bound"

\* A variant with a slip: a pending permission is not looked at
AsksUser_QuestionOnly(pending, clean_content) ==
    IsQuestion(clean_content, QuestionLenNoTools)

\* has_pending_permission or is_question: the turn is left to the user
AsksUser(pending, clean_content) ==
    pending # {} \/ IsQuestion(clean_content, QuestionLenNoTools)

\* A variant with a slip: only the first turn is taken as a final answer
IsFinalAnswer_FirstTurnOnly(t, clean_content) == t = 0

\* if turn == 0 or not clean_content: a turn without tool calls is the final answer
IsFinalAnswer(t, clean_content) == t = 0 \/ clean_content = ""

ModelTurn(resp) ==
    /\ pc = "loop"
    /\ modelCalls' = modelCalls + 1
    /\ LET \* the thought before the router call, then what the stream yields:
           \* the router delivers the text content as one chunk
           first == (IF turn = 0 THEN <<Thought(FirstThought)>> ELSE <<>>)
                       \o DecodeStream("", "", <<>>, <<resp.content>>).yielded
           final_tool_calls ==
               [i \in 1..Len(resp.tool_calls) |->
                   [id |-> CallId(modelCalls + 1, i),
                    name |-> resp.tool_calls[i].name,
                    arguments |-> resp.tool_calls[i].arguments]]
           hist == Append(history, AssistantMsg(resp.content, final_tool_calls))
           clean_content == CleanContent(resp.content)
           det == _detect_loop(clean_content, final_tool_calls)
           said == IF clean_content # "" THEN <<Message(clean_content)>> ELSE <<>>
       IN  /\ _last_response_hash' = det.last
           /\ _loop_detected' = det.flag
           /\ IF det.result
              THEN \* loop detected
                   /\ events' = events \o first \o <<Thought(LoopThought), Message(LoopMessage)>>
                   /\ _lessons_learned' = Append(_lessons_learned,
                          [lesson |-> LoopLesson, context |-> Slice(clean_content, 1, 100)])
                   /\ _system_instruction_count' = det.count
                   /\ history' = hist
                   /\ EndLoop("loop_detected")
                   /\ UNCHANGED _narration_retries
              ELSE IF Len(final_tool_calls) = 0
              THEN /\ _system_instruction_count' = det.count
                   /\ UNCHANGED _lessons_learned
                   /\ IF IsFinalAnswer(turn, clean_content)
                      THEN \* final answer
                           /\ events' = events \o first \o
                                  (IF clean_content # "" THEN <<Message(clean_content)>>
                                   ELSE IF turn = 0 THEN <<Message(EmptyResponseMessage)>>
                                   ELSE <<>>)
                           /\ history' = hist
                           /\ EndLoop("final")
                           /\ UNCHANGED _narration_retries
                      ELSE IF AsksUser(pending_hashes, clean_content)
                      THEN \* question or permission request
                           /\ events' = events \o first \o said
                           /\ history' = hist
                           /\ EndLoop("question")
                           /\ UNCHANGED _narration_retries
                      ELSE \* narration
                           /\ _narration_retries' = _narration_retries + 1
                           /\ IF _narration_retries + 1 >= NarrationCap
                              THEN /\ events' = events \o first \o
                                          <<Thought(clean_content), Message(clean_content)>>
                                   /\ history' = hist
                                   /\ EndLoop("narration_cap")
                              ELSE /\ events' = events \o first \o <<Thought(clean_content)>>
                                   /\ history' = Append(hist, Msg("user", NudgeText))
                                   /\ NextTurn
              ELSE \* tool calls
                   /\ _narration_retries' = 0
                   /\ _system_instruction_count' = 0
                   /\ UNCHANGED _lessons_learned
                   /\ events' = events \o first \o said
                   /\ IF IsQuestion(clean_content, QuestionLenTools)
                      THEN /\ history' = Append(hist, Msg("user", WaitingText))
                           /\ EndLoop("question")
                      ELSE /\ history' = hist
                           /\ active_tool_calls' = ActiveToolCalls(final_tool_calls)
                           /\ pc' = "tools"
                           /\ UNCHANGED <<turn, exitPath>>
    /\ UNCHANGED <<tasks, permission, user_text, callLog, memoryAdds, outcome, exc, probe>>

\* router.get_response raises: reported as a thought and raised again.
\* The stream raises while it is consumed: nothing catches it
RouterRaises(stage, e) ==
    /\ pc = "loop"
    /\ modelCalls' = modelCalls + 1
    /\ events' = events \o (IF turn = 0 THEN <<Thought(FirstThought)>> ELSE <<>>)
                        \o (IF stage = "request"
                            THEN <<Thought("System Switch: " \o e)>> ELSE <<>>)
    /\ pc' = "idle"
    /\ outcome' = "raised"
    /\ exitPath' = IF stage = "request" THEN "router_error" ELSE "stream_error"
    /\ exc' = e
    /\ UNCHANGED <<history, tasks, permission, detector, _narration_retries, _lessons_learned,
                   turn, user_text, active_tool_calls, callLog, memoryAdds, probe>>

(***************************************************************************)
(* The tool loop: one step per active tool call                             *)
(***************************************************************************)
\* Variants of the gate with a slip in its condition
GateBlocks_ApprovedInverted(sensitive, tool_name, tool_hash, trusted, approved) ==
    sensitive /\ tool_name \notin trusted /\ tool_hash \in approved
GateBlocks_Never(sensitive, tool_name, tool_hash, trusted, approved) ==
    FALSE
GateBlocks_HashOnly(sensitive, tool_name, tool_hash, trusted, approved) ==
    sensitive /\ tool_hash \notin approved
GateBlocks_IgnoresSensitivity(sensitive, tool_name, tool_hash, trusted, approved) ==
    tool_name \notin trusted /\ tool_hash \notin approved

\* The permission gate: a sensitive call is held back unless its tool is
\* trusted or its hash approved
GateBlocks(sensitive, tool_name, tool_hash, trusted, approved) ==
    sensitive /\ tool_name \notin trusted /\ tool_hash \notin approved

\* self.tasks.extend(new_tasks): a list gives its items, a string its
\* characters, null or a number raises (a dict or a double-encoded string
\* does not occur among the model's inputs)
ExtendRaises(new_tasks) == new_tasks.t \notin {"list", "str"}
ExtendItems(new_tasks) ==
    IF new_tasks.t = "list" THEN new_tasks.v
    ELSE [i \in 1..Len(new_tasks.v) |-> JStr(CharAt(new_tasks.v, i))]

\* The integer a Python int is: bool is a subclass of int, True is 1 and
\* False is 0
PyInt(x) == IF x.t = "bool" THEN (IF x.v THEN 1 ELSE 0) ELSE x.v

\* isinstance(idx, int) and 0 <= idx < len(self.tasks)
UpdateInRange(idx, task_list) ==
    idx.t \in {"int", "bool"} /\ 0 <= PyInt(idx) /\ PyInt(idx) < Len(task_list)

\* self.tasks[idx]["status"] = status
SetStatus(task_list, idx, status) ==
    LET old == task_list[idx + 1].v
    IN  [task_list EXCEPT ![idx + 1] =
            JObj([key \in DOMAIN old \cup {"status"} |->
                     IF key = "status" THEN status ELSE old[key]])]

\* A variant with a slip: add replaces the list instead of extending it
ManageTasks_AddReplaces(action, tool_args, task_list) ==
    IF action = JStr("add")
    THEN LET new_tasks == DictGet(tool_args, "tasks", JList(<<>>))
         IN  IF ExtendRaises(new_tasks) THEN [tasks |-> task_list, raised |-> TRUE]
             ELSE [tasks |-> ExtendItems(new_tasks), raised |-> FALSE]
    ELSE IF action = JStr("clear")
    THEN [tasks |-> <<>>, raised |-> FALSE]
    ELSE [tasks |-> task_list, raised |-> FALSE]

\* What manage_tasks does to the task list: the list afterwards, and whether
\* the statement raised
ManageTasks(action, tool_args, task_list) ==
    IF action = JStr("add")
    THEN LET new_tasks == DictGet(tool_args, "tasks", JList(<<>>))
         IN  IF ExtendRaises(new_tasks) THEN [tasks |-> task_list, raised |-> TRUE]
             ELSE [tasks |-> task_list \o ExtendItems(new_tasks), raised |-> FALSE]
    ELSE IF action = JStr("update")
    THEN LET idx == DictGet(tool_args, "index", None)
             status == DictGet(tool_args, "status", None)
         IN  IF UpdateInRange(idx, task_list)
             THEN IF IsPyDict(task_list[PyInt(idx) + 1])
                  THEN [tasks |-> SetStatus(task_list, PyInt(idx), status), raised |-> FALSE]
                  ELSE [tasks |-> task_list, raised |-> TRUE]
             ELSE [tasks |-> task_list, raised |-> FALSE]
    ELSE IF action = JStr("clear")
    THEN [tasks |-> <<>>, raised |-> FALSE]
    ELSE [tasks |-> task_list, raised |-> FALSE]

\* An exception leaves run_agent: the generator ends without the memory commit
RaiseOut(path, e) ==
    /\ pc' = "idle"
    /\ outcome' = "raised"
    /\ exitPath' = path
    /\ exc' = e
    /\ active_tool_calls' = <<>>
    /\ UNCHANGED <<turn, memoryAdds>>

\* return inside the tool loop
ReturnOut(path) ==
    /\ pc' = "idle"
    /\ outcome' = "returned"
    /\ exitPath' = path
    /\ active_tool_calls' = <<>>
    /\ UNCHANGED <<turn, memoryAdds, exc>>

\* The next active call of the turn, or the next turn after the last one
AfterToolCall ==
    IF Len(active_tool_calls) > 1
    THEN /\ active_tool_calls' = Tail(active_tool_calls)
         /\ UNCHANGED <<pc, turn, exitPath, outcome, memoryAdds, exc>>
    ELSE /\ NextTurn
         /\ UNCHANGED <<outcome, memoryAdds, exc>>

LogEntry(tool_call, tool_args, sensitive, authorized, blocked, calls, raised) ==
    [id |-> tool_call.id, name |-> tool_call.name, args |-> tool_args,
     sensitive |-> sensitive, authorized |-> authorized, blocked |-> blocked,
     calls |-> calls, raised |-> raised]

\* A variant with a slip: the except clause does not match what the tool raised
ExceptCatches_Nothing(tool_outcome) == FALSE

\* except Exception as e: matches what mcp_manager raised
ExceptCatches(tool_outcome) == tool_outcome = "raise"

ToolStep(tool_outcome) ==
    /\ pc = "tools"
    /\ Len(active_tool_calls) > 0
    /\ LET tool_call == Head(active_tool_calls)
           tool_name == tool_call.name
           tool_args == ParseArgs(tool_call.arguments)
       IN  IF tool_name = "manage_tasks"
           THEN LET action == DictGet(tool_args, "action", None)
                    done == ManageTasks(action, tool_args, tasks)
                    formatted_plan == _format_plan(done.tasks)
                    result == JObj([status |-> JStr("success"),
                                    message |-> JStr("Tasks " \o PyStr(action) \o "ed"),
                                    formatted |-> JStr(formatted_plan)])
                IN  /\ tasks' = done.tasks
                    /\ UNCHANGED permission
                    /\ IF done.raised \/ FormatPlanRaises(done.tasks)
                       THEN /\ RaiseOut("task_error", TaskErrorText)
                            /\ UNCHANGED <<history, events, callLog>>
                       ELSE /\ callLog' = Append(callLog,
                                   LogEntry(tool_call, tool_args, FALSE, FALSE, FALSE, 0, FALSE))
                            /\ history' = Append(history, ToolMsg(tool_call, result))
                            /\ IF action = JStr("add")
                               THEN /\ events' = events \o
                                           <<TaskUpdate(done.tasks),
                                             Message(PlanMessage \o formatted_plan),
                                             ToolResultEvent(tool_name, result)>>
                                    /\ ReturnOut("plan_pending")
                               ELSE /\ events' = events \o
                                           <<TaskUpdate(done.tasks),
                                             ToolResultEvent(tool_name, result)>>
                                    /\ AfterToolCall
           ELSE LET announce == <<Thought("Executing process: " \o tool_name \o "..."),
                                  ToolCallEvent(tool_name, tool_args)>>
                    tool_hash == ToolHash(tool_name, tool_args)
                    failed == <<Thought("Error in " \o tool_name \o ": " \o ToolErrorText)>>
                    error == JStr("Error: " \o ToolErrorText)
                    uncaught == /\ ~IsSensitiveRaises(tool_name, tool_args)
                                /\ ~GateBlocks(is_sensitive(tool_name, tool_args), tool_name,
                                               tool_hash, trusted_tools, approved_hashes)
                                /\ tool_outcome # "ok"
                                /\ ~ExceptCatches(tool_outcome)
                IN  /\ UNCHANGED tasks
                    /\ IF uncaught THEN RaiseOut("tool_error", ToolErrorText) ELSE AfterToolCall
                    /\ IF IsSensitiveRaises(tool_name, tool_args)
                       THEN \* the classifier raised inside the try block
                            /\ events' = events \o announce \o failed
                                             \o <<ToolResultEvent(tool_name, error)>>
                            /\ history' = Append(history, ToolMsg(tool_call, error))
                            /\ callLog' = Append(callLog,
                                   LogEntry(tool_call, tool_args, FALSE, FALSE, FALSE, 0, TRUE))
                            /\ UNCHANGED permission
                       ELSE LET sensitive == is_sensitive(tool_name, tool_args)
                                authorized == tool_name \in trusted_tools
                                                 \/ tool_hash \in approved_hashes
                            IN  IF GateBlocks(sensitive, tool_name, tool_hash,
                                              trusted_tools, approved_hashes)
                                THEN /\ pending_hashes' = pending_hashes \cup {tool_hash}
                                     /\ events' = events \o announce \o
                                            <<Thought("Permission required for " \o tool_name
                                                        \o ". Asking user..."),
                                              ToolResultEvent(tool_name, JStr(PermissionInstruction))>>
                                     /\ history' = Append(history,
                                            ToolMsg(tool_call, JStr(PermissionInstruction)))
                                     /\ callLog' = Append(callLog,
                                            LogEntry(tool_call, tool_args, sensitive, authorized, TRUE, 0,
                                                     FALSE))
                                     /\ UNCHANGED <<approved_hashes, trusted_tools>>
                                ELSE /\ UNCHANGED permission
                                     /\ callLog' = Append(callLog,
                                            LogEntry(tool_call, tool_args, sensitive, authorized, FALSE, 1,
                                                     tool_outcome # "ok"))
                                     /\ IF tool_outcome = "ok"
                                        THEN /\ events' = events \o announce \o
                                                    <<ToolResultEvent(tool_name, ToolResult)>>
                                             /\ history' = Append(history,
                                                    ToolMsg(tool_call, ToolResult))
                                        ELSE IF ExceptCatches(tool_outcome)
                                        THEN /\ events' = events \o announce \o failed \o
                                                    <<ToolResultEvent(tool_name, error)>>
                                             /\ history' = Append(history,
                                                    ToolMsg(tool_call, error))
                                        ELSE /\ events' = events \o announce
                                             /\ UNCHANGED history
    /\ UNCHANGED <<detector, _narration_retries, _lessons_learned, user_text, modelCalls,
                   probe>>

\* await memory.add_memory(user_text, ...) after the turn loop
CommitMemory ==
    /\ pc = "commit"
    /\ memoryAdds' = memoryAdds + 1
    /\ pc' = "idle"
    /\ outcome' = "returned"
    /\ UNCHANGED <<history, tasks, permission, detector, _narration_retries, _lessons_learned,
                   turn, user_text, active_tool_calls, events, callLog, modelCalls, exitPath,
                   exc, probe>>

\* The session is followed while the router has been called fewer than
\* bound times
Within(bound) == modelCalls < bound

Next ==
    \/ Within(MaxModelCalls) /\ \E text \in UserSays(pending_hashes) :
                                     RunAgent(text, NothingFound)
    \/ Within(MaxModelCalls) /\ \E resp \in Responses : ModelTurn(resp)
    \/ Within(MaxModelCalls) /\ \E stage \in RouterStages, e \in RouterErrors :
                                     RouterRaises(stage, e)
    \/ \E tool_outcome \in ToolOutcomes : ToolStep(tool_outcome)
    \/ CommitMemory
    \/ clear_history

Spec == Init /\ [][Next]_vars

(***************************************************************************)
(* Sessions with a model that repeats itself: narration and harmless tool   *)
(* calls only, followed for more model calls                                *)
(***************************************************************************)
LoopResponses ==
    { [content |-> "Working.", tool_calls |-> <<>>],
      [content |-> "<think>again</think>Working.", tool_calls |-> <<>>],
      [content |-> "Trying.", tool_calls |-> <<>>],
      [content |-> "", tool_calls |-> <<BashCall("ls")>>] }

LoopNext ==
    \/ Within(MaxLoopCalls) /\ \E text \in Requests, context \in Contexts :
                                    RunAgent(text, context)
    \/ Within(MaxLoopCalls) /\ \E resp \in LoopResponses : ModelTurn(resp)
    \/ \E tool_outcome \in ToolOutcomes : ToolStep(tool_outcome)
    \/ CommitMemory
    \/ clear_history

LoopSpec == Init /\ [][LoopNext]_vars

(***************************************************************************)
(* Sessions with a model that manages the task list: every turn is one      *)
(* manage_tasks call or the final answer                                    *)
(***************************************************************************)
TaskB == JObj([desc |-> JStr("test"), status |-> JStr("todo")])
TaskCall(args) == [name |-> "manage_tasks", arguments |-> JsonText(JObj(args))]
UpdateIndexes ==
    {JInt(0 - 1), JInt(0), JInt(1), JInt(2), JStr("0"), JNull, JBool(TRUE), JFloat("0.0")}
TaskCalls ==
    {TaskCall([action |-> JStr("add"), tasks |-> JList(<<TaskA, TaskB>>)]),
     TaskCall([action |-> JStr("add"), tasks |-> JList(<<JStr("note")>>)]),
     TaskCall([action |-> JStr("add"), tasks |-> JNull]),
     TaskCall([action |-> JStr("clear")]),
     TaskCall([action |-> JStr("remove"), index |-> JInt(0)]),
     TaskCall([action |-> JStr("update"), status |-> JStr("done")])}
    \cup {TaskCall([action |-> JStr("update"), index |-> idx, status |-> JStr("done")]) :
              idx \in UpdateIndexes}
TaskResponses ==
    {[content |-> "", tool_calls |-> <<tc>>] : tc \in TaskCalls}
        \cup {[content |-> "Done.", tool_calls |-> <<>>]}

TaskNext ==
    \/ Within(MaxTaskCalls) /\ \E text \in Requests : RunAgent(text, NothingFound)
    \/ Within(MaxTaskCalls) /\ \E resp \in TaskResponses : ModelTurn(resp)
    \/ \E tool_outcome \in ToolOutcomes : ToolStep(tool_outcome)
    \/ CommitMemory
    \/ clear_history

TaskSpec == Init /\ [][TaskNext]_vars

(***************************************************************************)
(* The argument parsing driven alone, over argument strings that are JSON   *)
(* text of a value, of a string holding JSON text (once or twice encoded),  *)
(* or no JSON at all                                                        *)
(***************************************************************************)
ArgValues ==
    {JObj(EmptyDict), JObj([command |-> JStr("ls")]),
     JObj([action |-> JStr("add"), tasks |-> JList(<<TaskA>>)]),
     JList(<<>>), JList(<<JObj([command |-> JStr("ls")])>>),
     JInt(0), JNull, JBool(TRUE), JFloat("1.5"), JStr("ls")}
RawArguments ==
    {BadText} \cup {JsonText(x) : x \in ArgValues}
              \cup {JsonText(JEnc(x)) : x \in ArgValues}
              \cup {JsonText(JEnc(JEnc(x))) : x \in ArgValues}

ParseCall(raw_args) ==
    /\ Len(probe) < MaxParseCalls
    /\ probe' = Append(probe, [raw |-> raw_args, parsed |-> ParseToolArgs(raw_args)])
    /\ UNCHANGED <<history, tasks, permission, detector, _narration_retries,
                   _lessons_learned, pc, turn, user_text, active_tool_calls, events,
                   callLog, memoryAdds, modelCalls, outcome, exitPath, exc>>

ParseNext == \E raw_args \in RawArguments : ParseCall(raw_args)

ParseSpec == Init /\ [][ParseNext]_vars

(***************************************************************************)
(* The streaming loop driven alone: one text, delivered whole or cut into   *)
(* fragments at any position, tags included                                 *)
(***************************************************************************)
StreamTexts ==
    {"<think>plan</think>Done.",
     "<thought>a</thought>b<think>c</think>d",
     "<think>a</think>x<think></think>",
     "<think>a</think>Done. <think>",
     "<think>open end",
     "No tags."}

\* The ways of cutting s into at most n non-empty fragments
RECURSIVE Cuts(_, _)
Cuts(s, n) ==
    IF n <= 1 \/ Len(s) <= 1 THEN {<<s>>}
    ELSE {<<s>>} \cup
         UNION {{<<Slice(s, 1, i)>> \o rest : rest \in Cuts(Slice(s, i + 1, Len(s)), n - 1)} :
                   i \in 1..(Len(s) - 1)}

\* self._current_thought = "" at the start of the query, full_content = ""
\* at the start of the stream
DecodeFragments(chunks) ==
    /\ probe = <<>>
    /\ LET decoded == DecodeStream("", "", <<>>, chunks)
       IN  probe' = <<[chunks |-> chunks,
                       clean_content |-> CleanContent(decoded.full_content),
                       current_thought |-> decoded.current_thought]>>
    /\ UNCHANGED <<history, tasks, permission, detector, _narration_retries,
                   _lessons_learned, pc, turn, user_text, active_tool_calls, events,
                   callLog, memoryAdds, modelCalls, outcome, exitPath, exc>>

DecodeNext ==
    \E text \in StreamTexts : \E chunks \in Cuts(text, MaxFragments) : DecodeFragments(chunks)

DecodeSpec == Init /\ [][DecodeNext]_vars

(***************************************************************************)
(* The loop detector driven alone: _detect_loop called on a sequence of     *)
(* turns, from a fresh detector, with nothing resetting it in between       *)
(***************************************************************************)
DetectContents == {"Working.", "Trying."}
DetectToolCalls == {<<>>, <<"ls">>}

DetectLoop(content, tool_calls) ==
    /\ Len(probe) < MaxDetectCalls
    /\ LET det == _detect_loop(content, tool_calls)
       IN  /\ _system_instruction_count' = det.count
           /\ _last_response_hash' = det.last
           /\ _loop_detected' = det.flag
           /\ probe' = Append(probe, [hash |-> ResponseHash(content, tool_calls),
                                      result |-> det.result])
    /\ UNCHANGED <<history, tasks, permission, _narration_retries, _lessons_learned, pc,
                   turn, user_text, active_tool_calls, events, callLog, memoryAdds,
                   modelCalls, outcome, exitPath, exc>>

DetectorNext ==
    \E content \in DetectContents, tool_calls \in DetectToolCalls :
        DetectLoop(content, tool_calls)

DetectorSpec == Init /\ [][DetectorNext]_vars

(***************************************************************************)
(* Two connected clients.  Each transport handler (the websocket endpoint   *)
(* of a connection, the bot's message handler) is a coroutine of the one    *)
(* event loop and iterates over agent.run_agent of the module-level agent;  *)
(* the loop runs one coroutine at a time and changes coroutine where one    *)
(* awaits.  The variables of the running invocation (pc, turn, user_text,   *)
(* ...) are the frame of the coroutine that runs; the frame of the other    *)
(* client is parked in probe.  The fields of the agent are not part of a    *)
(* frame: both handlers use the same object.                                *)
(***************************************************************************)
Clients == {"ws1", "ws2"}
Other(c) == CHOOSE d \in Clients : d # c

\* The local state of one handler and of the run_agent generator it drives
Frame ==
    [pc |-> pc, turn |-> turn, user_text |-> user_text,
     active_tool_calls |-> active_tool_calls, events |-> events, callLog |-> callLog,
     memoryAdds |-> memoryAdds, outcome |-> outcome, exitPath |-> exitPath, exc |-> exc]
\* a handler waiting for its client's first message
IdleFrame ==
    [pc |-> "idle", turn |-> 0, user_text |-> "", active_tool_calls |-> <<>>,
     events |-> <<>>, callLog |-> <<>>, memoryAdds |-> 0, outcome |-> "returned",
     exitPath |-> "none", exc |-> NoException]

\* The fields of the agent object
AgentState ==
    [history |-> history, tasks |-> tasks, pending_hashes |-> pending_hashes,
     approved_hashes |-> approved_hashes, trusted_tools |-> trusted_tools,
     _system_instruction_count |-> _system_instruction_count,
     _last_response_hash |-> _last_response_hash, _loop_detected |-> _loop_detected,
     _narration_retries |-> _narration_retries, _lessons_learned |-> _lessons_learned]

\* no stop message is waiting in the connection
NoStop == [sent |-> FALSE, pc |-> "idle", turn |-> 0]

TransportInit ==
    /\ Constructed
    /\ probe = [cur |-> "ws1", parked |-> IdleFrame,
                left |-> [c \in Clients |-> AgentState],
                stop |-> [c \in Clients |-> NoStop]]

\* The event loop leaves the handler of probe.cur at an await and resumes the
\* handler of the other client; probe.left keeps the agent state as the
\* suspended handler last saw it
Switch ==
    /\ pc' = probe.parked.pc
    /\ turn' = probe.parked.turn
    /\ user_text' = probe.parked.user_text
    /\ active_tool_calls' = probe.parked.active_tool_calls
    /\ events' = probe.parked.events
    /\ callLog' = probe.parked.callLog
    /\ memoryAdds' = probe.parked.memoryAdds
    /\ outcome' = probe.parked.outcome
    /\ exitPath' = probe.parked.exitPath
    /\ exc' = probe.parked.exc
    /\ probe' = [probe EXCEPT !.cur = Other(probe.cur), !.parked = Frame,
                              !.left[probe.cur] = AgentState]
    /\ UNCHANGED <<history, tasks, permission, detector, _narration_retries,
                   _lessons_learned, modelCalls>>

\* The client of the running invocation sends {"type": "stop"}: the message
\* waits in the connection, the handler is inside `async for event in
\* agent.run_agent(...)`
SendStop ==
    /\ outcome = "running"
    /\ ~probe.stop[probe.cur].sent
    /\ probe' = [probe EXCEPT !.stop[probe.cur] = [sent |-> TRUE, pc |-> pc, turn |-> turn]]
    /\ UNCHANGED <<history, tasks, permission, detector, _narration_retries,
                   _lessons_learned, pc, turn, user_text, active_tool_calls, events, callLog,
                   memoryAdds, modelCalls, outcome, exitPath, exc>>

\* websocket.receive_text() returns the stop message once the handler is back
\* at the top of its loop: it answers with a status and reads on
ReceiveStop ==
    /\ pc = "idle"
    /\ probe.stop[probe.cur].sent
    /\ probe' = [probe EXCEPT !.stop[probe.cur] = NoStop]
    /\ UNCHANGED <<history, tasks, permission, detector, _narration_retries,
                   _lessons_learned, pc, turn, user_text, active_tool_calls, events, callLog,
                   memoryAdds, modelCalls, outcome, exitPath, exc>>

\* one utterance: a request while nothing is pending, an approval otherwise
TransportRequests == {"yes go ahead"}
TransportResponses ==
    { [content |-> "Done.", tool_calls |-> <<>>],
      [content |-> "", tool_calls |-> <<BashCall("rm -rf /")>>],
      [content |-> "", tool_calls |-> <<BashCall("ls")>>] }

\* messages are read in the order they were sent: a waiting stop comes first
TransportNext ==
    \/ Within(MaxTransportCalls) /\ ~probe.stop[probe.cur].sent
           /\ \E text \in TransportRequests : RunAgent(text, NothingFound)
    \/ Within(MaxTransportCalls) /\ \E resp \in TransportResponses : ModelTurn(resp)
    \/ ToolStep("ok")
    \/ CommitMemory
    \/ Switch
    \/ SendStop
    \/ ReceiveStop

TransportSpec == TransportInit /\ [][TransportNext]_vars

(***************************************************************************)
(* The first invocation of a session with a model that keeps calling a      *)
(* harmless tool, followed to the end of the turn range.  Every await of    *)
(* the invocation returns: the router's stream, the tool call, the memory   *)
(* store.                                                                   *)
(***************************************************************************)
BoundResponses ==
    { [content |-> "", tool_calls |-> <<BashCall("ls")>>],
      [content |-> "", tool_calls |-> <<>>] }

BoundNext ==
    \/ history = <<>> /\ RunAgent("ok, delete everything", NothingFound)
    \/ \E resp \in BoundResponses : ModelTurn(resp)
    \/ ToolStep("ok")
    \/ CommitMemory

BoundSpec ==
    /\ Init /\ [][BoundNext]_vars
    /\ WF_vars(\E resp \in BoundResponses : ModelTurn(resp))
    /\ WF_vars(ToolStep("ok"))
    /\ WF_vars(CommitMemory)

(***************************************************************************)
(* Sessions with a model that gives an answer, says nothing, only thinks,   *)
(* or calls a harmless tool: nothing is ever pending                        *)
(***************************************************************************)
AnswerResponses ==
    { [content |-> "Done.", tool_calls |-> <<>>],
      [content |-> "", tool_calls |-> <<>>],
      [content |-> "<think>hm</think>", tool_calls |-> <<>>],
      [content |-> "", tool_calls |-> <<BashCall("ls")>>] }

AnswerNext ==
    \/ Within(MaxAnswerCalls) /\ \E text \in Requests : RunAgent(text, NothingFound)
    \/ Within(MaxAnswerCalls) /\ \E resp \in AnswerResponses : ModelTurn(resp)
    \/ \E tool_outcome \in ToolOutcomes : ToolStep(tool_outcome)
    \/ CommitMemory
    \/ clear_history

AnswerSpec == Init /\ [][AnswerNext]_vars

(***************************************************************************)
(* Sessions in which every call of run_agent is recorded, the calls with an *)
(* empty utterance included                                                 *)
(***************************************************************************)
MaxInvocations == 3
MaxCallTurns == 3

CallInit == Constructed /\ probe = [calls |-> 0, said |-> ""]

CallRunAgent(text) ==
    /\ probe.calls < MaxInvocations
    /\ run_agent(text, NothingFound)
    /\ probe' = [calls |-> probe.calls + 1, said |-> text]

CallNext ==
    \/ \E text \in UserSays(pending_hashes) : CallRunAgent(text)
    \/ Within(MaxCallTurns) /\ \E resp \in TransportResponses : ModelTurn(resp)
    \/ \E tool_outcome \in ToolOutcomes : ToolStep(tool_outcome)
    \/ CommitMemory
    \/ clear_history

CallSpec == CallInit /\ [][CallNext]_vars

(***************************************************************************)
(* Sessions long enough to trust a tool, reset the conversation and call    *)
(* the tool again: the model answers, or calls a sensitive tool             *)
(***************************************************************************)
MaxResetCalls == 4

ResetResponses ==
    { [content |-> "Done.", tool_calls |-> <<>>],
      [content |-> "", tool_calls |-> <<BashCall("rm -rf /")>>],
      [content |-> "", tool_calls |-> <<BashCall("sudo reboot"), BashCall("ls")>>] }

ResetNext ==
    \/ Within(MaxResetCalls) /\ \E text \in UserSays(pending_hashes) :
                                     RunAgent(text, NothingFound)
    \/ Within(MaxResetCalls) /\ \E resp \in ResetResponses : ModelTurn(resp)
    \/ \E tool_outcome \in ToolOutcomes : ToolStep(tool_outcome)
    \/ CommitMemory
    \/ clear_history

ResetSpec == Init /\ [][ResetNext]_vars

(***************************************************************************)
(* The assembly of streamed tool calls driven alone: the fragments          *)
(* (delta.tool_calls entries) of one response, in any order of arrival      *)
(***************************************************************************)
\* tc_chunk.id of a fragment that carries no id
NoId == "None"

\* A variant with a slip: the pieces of the name and of the arguments are
\* put in front of what has been received
AddFragment_Prepends(acc, tc_chunk) ==
    LET idx == tc_chunk.index
        base == IF idx \in DOMAIN acc THEN acc
                ELSE acc @@ (idx :> [id |-> tc_chunk.id, name |-> "", arguments |-> ""])
    IN  [base EXCEPT ![idx] =
            [id |-> IF tc_chunk.id # NoId THEN tc_chunk.id ELSE base[idx].id,
             name |-> tc_chunk.name \o base[idx].name,
             arguments |-> tc_chunk.arguments \o base[idx].arguments]]

\* One fragment into tool_calls_accumulator: the entry of its index is
\* created on first sight, a non-empty id is assigned, the pieces are appended
AddFragment(acc, tc_chunk) ==
    LET idx == tc_chunk.index
        base == IF idx \in DOMAIN acc THEN acc
                ELSE acc @@ (idx :> [id |-> tc_chunk.id, name |-> "", arguments |-> ""])
    IN  [base EXCEPT ![idx] =
            [id |-> IF tc_chunk.id # NoId THEN tc_chunk.id ELSE base[idx].id,
             name |-> base[idx].name \o tc_chunk.name,
             arguments |-> base[idx].arguments \o tc_chunk.arguments]]

RECURSIVE Accumulate(_, _)
Accumulate(acc, tc_chunks) ==
    IF Len(tc_chunks) = 0 THEN acc
    ELSE Accumulate(AddFragment(acc, Head(tc_chunks)), Tail(tc_chunks))

\* sorted(tool_calls_accumulator.keys())
RECURSIVE Sorted(_)
Sorted(keys) ==
    IF keys = {} THEN <<>>
    ELSE LET least == CHOOSE k \in keys : \A j \in keys : k <= j
         IN  <<least>> \o Sorted(keys \ {least})

\* final_tool_calls: one tool call per index, in the order of the indexes
AssembleToolCalls(tc_chunks) ==
    LET acc == Accumulate(<<>>, tc_chunks)
        sorted_indices == Sorted(DOMAIN acc)
    IN  [i \in 1..Len(sorted_indices) |-> acc[sorted_indices[i]]]

ToolCallFragments ==
    { [index |-> 0, id |-> "call_a", name |-> "ba", arguments |-> "{"],
      [index |-> 0, id |-> NoId, name |-> "sh", arguments |-> "}"],
      [index |-> 0, id |-> "call_b", name |-> "", arguments |-> ""],
      [index |-> 1, id |-> "call_c", name |-> "ls", arguments |-> ""],
      [index |-> 1, id |-> NoId, name |-> "", arguments |-> "[]"],
      [index |-> 1, id |-> "call_d", name |-> "", arguments |-> ""] }
FragmentStreams == UNION {[1..n -> ToolCallFragments] : n \in 1..MaxPieces}

AssembleStream(tc_chunks) ==
    /\ probe = <<>>
    /\ probe' = <<[tc_chunks |-> tc_chunks, final_tool_calls |-> AssembleToolCalls(tc_chunks)]>>
    /\ UNCHANGED <<history, tasks, permission, detector, _narration_retries,
                   _lessons_learned, pc, turn, user_text, active_tool_calls, events,
                   callLog, memoryAdds, modelCalls, outcome, exitPath, exc>>

AssembleNext == \E tc_chunks \in FragmentStreams : AssembleStream(tc_chunks)

AssembleSpec == Init /\ [][AssembleNext]_vars

(***************************************************************************)
(* The stripping of thought tags driven alone, over accumulated contents    *)
(* put together from tags, pieces of tags, text and a newline               *)
(***************************************************************************)
ContentParts == {"<think>", "</think>", "<thought>", "</thought>", "<thi", "nk>", "a", "\n"}
FullContents == {JoinWith(parts, "") : parts \in UNION {[1..n -> ContentParts] : n \in 1..MaxParts}}

StripContent(full_content) ==
    /\ probe = <<>>
    /\ probe' = <<[full_content |-> full_content,
                   clean_content |-> CleanContent(full_content)]>>
    /\ UNCHANGED <<history, tasks, permission, detector, _narration_retries,
                   _lessons_learned, pc, turn, user_text, active_tool_calls, events,
                   callLog, memoryAdds, modelCalls, outcome, exitPath, exc>>

StripNext == \E full_content \in FullContents : StripContent(full_content)

StripSpec == Init /\ [][StripNext]_vars

(***************************************************************************)
(* Properties                                                               *)
(***************************************************************************)
\* The step that starts a top-level invocation with a non-empty utterance
StartsInvocation == pc = "idle" /\ pc' = "loop"

\* The step that processes the tool call at the head of the active calls
ProcessesCall == pc = "tools" /\ Len(active_tool_calls) > 0
HeadCall == Head(active_tool_calls)
HeadArgs == ParseArgs(HeadCall.arguments)
HeadHash == ToolHash(HeadCall.name, HeadArgs)
HeadIsTool == HeadCall.name # "manage_tasks"
HeadSensitive ==
    /\ HeadIsTool
    /\ ~IsSensitiveRaises(HeadCall.name, HeadArgs)
    /\ is_sensitive(HeadCall.name, HeadArgs)
HeadAuthorized == HeadHash \in approved_hashes \/ HeadCall.name \in trusted_tools

\* The entry the step has just written for the call it processed
Logged == callLog'[Len(callLog')]
LogsHeadCall == Len(callLog') = Len(callLog) + 1 /\ Logged.id = HeadCall.id

ToolMessagesFor(hist, id) ==
    {i \in 1..Len(hist) : hist[i].role = "tool" /\ hist[i].tool_call_id = id}

\* C1: call_tool is never invoked for a call that is_sensitive classifies as
\* sensitive unless, at the moment of the call, its hash is in approvedHashes
\* or its tool name is in trustedTools.
C1_SensitiveCallsAreAuthorized ==
    \A i \in 1..Len(callLog) :
        (callLog[i].calls > 0 /\ is_sensitive(callLog[i].name, callLog[i].args))
            => /\ callLog[i].authorized
               /\ \/ ToolHash(callLog[i].name, callLog[i].args) \in approved_hashes
                  \/ callLog[i].name \in trusted_tools

\* A sensitive call has been passed to call_tool, after the user approved it
C1_Witness ==
    \E i \in 1..Len(callLog) :
        /\ callLog[i].calls = 1
        /\ is_sensitive(callLog[i].name, callLog[i].args)
        /\ ToolHash(callLog[i].name, callLog[i].args) \in approved_hashes

\* C2: when a sensitive call is neither approved nor trusted it is blocked:
\* its hash is added to pendingHashes, call_tool is not invoked for it, a
\* thought and a tool_result carrying the permission-request instruction are
\* emitted, exactly one tool-role history message keyed by the call's id is
\* appended with the instruction as content, and the turn loop goes on with
\* the next call or the next turn.
C2_BlockedCall ==
    [][(ProcessesCall /\ HeadSensitive /\ ~HeadAuthorized) =>
          /\ LogsHeadCall /\ Logged.blocked /\ Logged.calls = 0
          /\ pending_hashes' = pending_hashes \cup {HeadHash}
          /\ Len(events') = Len(events) + 4
          /\ events'[Len(events') - 1].type = "thought"
          /\ events'[Len(events')] =
                 ToolResultEvent(HeadCall.name, JStr(PermissionInstruction))
          /\ \A i \in (Len(events) + 1)..Len(events') :
                 events'[i].type = "tool_result" => events'[i].content # ToolResult
          /\ history' = Append(history,
                 [role |-> "tool", content |-> JsonDumps(JStr(PermissionInstruction)),
                  tool_calls |-> <<>>, tool_call_id |-> HeadCall.id,
                  name |-> HeadCall.name])
          /\ Cardinality(ToolMessagesFor(history', HeadCall.id)) = 1
          /\ outcome' = "running"
          /\ IF Len(active_tool_calls) > 1
             THEN pc' = "tools" /\ active_tool_calls' = Tail(active_tool_calls)
                  /\ turn' = turn
             ELSE /\ turn' = turn + 1
                  /\ pc' = IF turn + 1 < max_turns THEN "loop" ELSE "commit"
      ]_vars

\* A sensitive call was blocked and the next call of the same turn is up
C2_Witness ==
    /\ pc = "tools"
    /\ Len(active_tool_calls) > 0
    /\ Len(callLog) > 0
    /\ callLog[Len(callLog)].blocked
    /\ ToolHash(callLog[Len(callLog)].name, callLog[Len(callLog)].args) \in pending_hashes
    /\ events[Len(events)] =
           ToolResultEvent(callLog[Len(callLog)].name, JStr(PermissionInstruction))

\* C3: if pendingHashes is non-empty when an invocation starts and the
\* utterance matches an affirmative token, then before the first model call
\* every pending hash is in approvedHashes, the tool name of every such hash
\* is in trustedTools, and pendingHashes is empty.
C3_AffirmativeApproves ==
    [][(StartsInvocation /\ pending_hashes # {} /\ MatchesAffirmative(user_text')) =>
          /\ pending_hashes \subseteq approved_hashes'
          /\ \A h \in pending_hashes : ToolNameFromHash(h) \in trusted_tools'
          /\ "bash" \in trusted_tools'
          /\ pending_hashes' = {}
          /\ turn' = 0 /\ modelCalls' = modelCalls
      ]_vars

\* An invocation stands before its first model call with the pending call
\* approved by "yes go ahead"
C3_Witness ==
    /\ pc = "loop" /\ turn = 0
    /\ user_text = "yes go ahead"
    /\ ToolHash("bash", [command |-> JStr("rm -rf /")]) \in approved_hashes
    /\ "bash" \in trusted_tools
    /\ pending_hashes = {}

\* C4: once a hash is in approvedHashes or its tool name is in trustedTools,
\* a later identical sensitive call is executed and its hash is never added
\* to pendingHashes again; once the tool name is trusted this holds for
\* sensitive calls of that tool with any arguments.
C4_ApprovedStaysApproved ==
    /\ [](\A h \in pending_hashes :
              h \notin approved_hashes /\ ToolNameFromHash(h) \notin trusted_tools)
    /\ [][/\ approved_hashes \subseteq approved_hashes'
          /\ trusted_tools \subseteq trusted_tools'
          /\ (ProcessesCall /\ HeadSensitive /\ HeadAuthorized) =>
                /\ LogsHeadCall /\ ~Logged.blocked /\ Logged.calls = 1
                /\ pending_hashes' = pending_hashes
                /\ HeadHash \notin pending_hashes'
      ]_vars

\* A sensitive call whose own hash was never approved has been executed
\* because its tool name is trusted
C4_Witness ==
    \E i \in 1..Len(callLog) :
        /\ callLog[i].calls = 1 /\ ~callLog[i].blocked
        /\ is_sensitive(callLog[i].name, callLog[i].args)
        /\ ToolHash(callLog[i].name, callLog[i].args) \notin approved_hashes
        /\ callLog[i].name \in trusted_tools
        /\ pending_hashes = {}

\* An affirmative or negative token occurring in the utterance as a whole
\* word: not inside a longer run of letters or digits
IsWordChar(c) ==
    \E i \in 1..Len(LowerAlphabet) :
        c \in {CharAt(LowerAlphabet, i), CharAt(UpperAlphabet, i)} \cup
              {"0", "1", "2", "3", "4", "5", "6", "7", "8", "9"}
OccursAsWord(s, p) ==
    \E i \in 1..(Len(s) - Len(p) + 1) :
        /\ SubSeq(s, i, i + Len(p) - 1) = p
        /\ i = 1 \/ ~IsWordChar(CharAt(s, i - 1))
        /\ i + Len(p) - 1 = Len(s) \/ ~IsWordChar(CharAt(s, i + Len(p)))
SaysAffirmative(text) == \E x \in AffirmativeTokens : OccursAsWord(LowerText(text), x)
SaysNegative(text) == \E x \in NegativeTokens : OccursAsWord(LowerText(text), x)

\* C5: if pendingHashes is non-empty when an invocation starts and the
\* utterance holds a negative token and no affirmative token, pendingHashes
\* becomes empty while approvedHashes and trustedTools are unchanged, so a
\* retried identical sensitive call is blocked and queued as pending again.
C5_NegativeDiscards ==
    [][/\ (StartsInvocation /\ pending_hashes # {}
              /\ SaysNegative(user_text') /\ ~SaysAffirmative(user_text')) =>
             /\ pending_hashes' = {}
             /\ approved_hashes' = approved_hashes
             /\ trusted_tools' = trusted_tools
       /\ (ProcessesCall /\ HeadSensitive /\ ~HeadAuthorized) =>
             /\ LogsHeadCall /\ Logged.blocked /\ Logged.calls = 0
             /\ HeadHash \in pending_hashes'
      ]_vars

\* C6: affirmative matching takes precedence over negative matching: an
\* utterance that matches both while pendingHashes is non-empty approves the
\* pending hashes and trusts their tool names; the pending hashes are
\* discarded only when no affirmative token matched.
C6_AffirmativeFirst ==
    [][(StartsInvocation /\ pending_hashes # {}) =>
          /\ (MatchesAffirmative(user_text') /\ MatchesNegative(user_text')) =>
                /\ approved_hashes' = approved_hashes \cup pending_hashes
                /\ trusted_tools' =
                       trusted_tools \cup {ToolNameFromHash(h) : h \in pending_hashes}
                /\ pending_hashes' = {}
          /\ (pending_hashes' = {} /\ approved_hashes' = approved_hashes) =>
                /\ MatchesNegative(user_text')
                /\ ~MatchesAffirmative(user_text')
                /\ ~SaysAffirmative(user_text')
      ]_vars

\* "No problem, go ahead", which holds a negative and an affirmative token,
\* has approved the pending call
C6_Witness ==
    /\ pc = "loop" /\ turn = 0
    /\ user_text = "No problem, go ahead"
    /\ SaysNegative(user_text) /\ SaysAffirmative(user_text)
    /\ approved_hashes # {}
    /\ trusted_tools # {}
    /\ pending_hashes = {}

\* C7: approvedHashes and trustedTools change only when an invocation starts
\* with an utterance in which an affirmative token occurs as a whole word.
C7_OnlyAffirmativeWordsApprove ==
    [][(approved_hashes' # approved_hashes \/ trusted_tools' # trusted_tools) =>
          (StartsInvocation /\ SaysAffirmative(user_text'))
      ]_vars

\* C8: a tool call other than manage_tasks that is_sensitive classifies as not
\* sensitive is passed to call_tool exactly once without any confirmation
\* step, whatever pendingHashes, approvedHashes and trustedTools hold, and
\* processing it leaves those three sets unchanged.
C8_NonSensitiveRuns ==
    [][(/\ ProcessesCall /\ HeadIsTool
        /\ ~IsSensitiveRaises(HeadCall.name, HeadArgs)
        /\ ~is_sensitive(HeadCall.name, HeadArgs)) =>
          /\ LogsHeadCall /\ Logged.calls = 1 /\ ~Logged.blocked
          /\ UNCHANGED permission
          /\ \A i \in (Len(events) + 1)..Len(events') :
                 events'[i].type = "tool_result" =>
                     events'[i].content # JStr(PermissionInstruction)
          /\ Cardinality({i \in (Len(events) + 1)..Len(events') :
                             events'[i].type = "tool_result"}) = 1
          /\ Cardinality(ToolMessagesFor(history', HeadCall.id)) = 1
      ]_vars

\* A harmless call has been executed while another call was pending
C8_Witness ==
    \E i \in 1..Len(callLog) :
        /\ callLog[i].name = "bash"
        /\ callLog[i].args = [command |-> JStr("ls")]
        /\ callLog[i].calls = 1
        /\ pending_hashes # {}

\* C9: plan priority: when a turn whose tool calls are processed holds a
\* manage_tasks call with action=add, only that call is processed; the new
\* tasks are recorded, task_update is emitted before the approval message,
\* the plan's tool result is appended to history, and the invocation ends
\* with no further model call.
PlanIn(tool_calls) == \E i \in 1..Len(tool_calls) : IsPlanningCall(tool_calls[i])
C9_PlanPriority ==
    [][/\ (pc = "loop" /\ pc' = "tools"
              /\ PlanIn(history'[Len(history')].tool_calls)) =>
             /\ Len(active_tool_calls') = 1
             /\ IsPlanningCall(active_tool_calls'[1])
       /\ (ProcessesCall /\ IsPlanningCall(HeadCall)) =>
             /\ Len(tasks') >= Len(tasks)
             /\ SubSeq(tasks', 1, Len(tasks)) = tasks
             /\ Len(events') = Len(events) + 3
             /\ events'[Len(events) + 1] = TaskUpdate(tasks')
             /\ events'[Len(events) + 2].type = "message"
             /\ events'[Len(events) + 3].type = "tool_result"
             /\ Len(history') = Len(history) + 1
             /\ history'[Len(history')].role = "tool"
             /\ history'[Len(history')].tool_call_id = HeadCall.id
             /\ LogsHeadCall /\ Logged.calls = 0
             /\ pc' = "idle" /\ outcome' = "returned"
             /\ modelCalls' = modelCalls
      ]_vars

\* C10: a top-level invocation with a non-empty utterance that has returned,
\* by whichever path its turn loop ended, has committed the utterance to
\* long-term memory exactly once.
C10_MemoryCommittedOnce ==
    (pc = "idle" /\ outcome = "returned" /\ user_text # "") => memoryAdds = 1

\* C11: from a fresh detector and with no reset in between, a call of
\* _detect_loop returns true exactly when its fingerprint equals those of the
\* two calls right before it (the counter has reached 2): never on the first
\* or second call; and a call whose fingerprint differs from the one before
\* leaves the counter at 0.
C11_LoopOnThirdRepeat ==
    /\ \A k \in 1..Len(probe) :
          probe[k].result <=>
              (k >= 3 /\ probe[k].hash = probe[k - 1].hash
                      /\ probe[k].hash = probe[k - 2].hash)
    /\ (Len(probe) >= 1 /\ (Len(probe) = 1 \/
                             probe[Len(probe)].hash # probe[Len(probe) - 1].hash)) =>
          /\ _system_instruction_count = 0
          /\ _last_response_hash = probe[Len(probe)].hash
    /\ (Len(probe) >= 2 /\ probe[Len(probe)].hash = probe[Len(probe) - 1].hash) =>
          /\ _system_instruction_count >= 1
          /\ _loop_detected
                 <=> \E k \in 1..Len(probe) : probe[k].result

\* Three equal fingerprints have declared a loop, and a different fourth one
\* has set the counter back
C11_Witness ==
    /\ Len(probe) = 4
    /\ probe[3].result /\ ~probe[2].result /\ ~probe[4].result
    /\ probe[4].hash # probe[3].hash
    /\ _system_instruction_count = 0
    /\ _loop_detected

\* The assistant turns of the running invocation, as history holds them:
\* the assistant messages after the utterance
IsUtterance(m) == m.role = "user" /\ m.content \notin {NudgeText, WaitingText}
InvocationStart(hist) ==
    CHOOSE i \in 0..Len(hist) :
        /\ i > 0 => IsUtterance(hist[i])
        /\ \A j \in (i + 1)..Len(hist) : ~IsUtterance(hist[j])
IsAssistant(m) == m.role = "assistant"
AssistantTurns(hist) ==
    SelectSeq(SubSeq(hist, InvocationStart(hist) + 1, Len(hist)), IsAssistant)
TakesTurn == pc = "loop" /\ modelCalls' = modelCalls + 1 /\ Len(history') > Len(history)
SameTurn(m1, m2) ==
    /\ CleanContent(m1.content) = CleanContent(m2.content)
    /\ Len(m1.tool_calls) = Len(m2.tool_calls)
\* The last n assistant turns of the invocation are identical
Repeated(hist, n) ==
    LET turns == AssistantTurns(hist)
    IN  /\ Len(turns) >= n
        /\ \A k \in (Len(turns) - n + 1)..Len(turns) : SameTurn(turns[k], turns[Len(turns)])
LastTurn(hist) == AssistantTurns(hist)[Len(AssistantTurns(hist))]
LoopDeclared ==
    /\ Len(events') >= Len(events) + 2
    /\ events'[Len(events') - 1] = Thought(LoopThought)
    /\ events'[Len(events')] = Message(LoopMessage)
    /\ \A i \in (Len(events) + 1)..Len(events') : events'[i].type = "message" => i = Len(events')
    /\ Len(_lessons_learned') = Len(_lessons_learned) + 1
    /\ _lessons_learned'[Len(_lessons_learned')].lesson = LoopLesson
    /\ pc' = "commit"
    /\ exitPath' = "loop_detected"

\* C12: within one invocation, when the model gives the same cleaned text
\* with no tool call on consecutive turns, the third such turn is declared a
\* loop: the loop thought and the clarification message are emitted instead
\* of the narration, a lesson is recorded and the turn loop ends; the second
\* such turn is not, and the loop check comes before the narration cap.
C12_ThirdNarrationIsLoop ==
    [][(TakesTurn /\ Len(LastTurn(history').tool_calls) = 0) =>
          /\ Repeated(history', 3) =>
                /\ LoopDeclared
                /\ _narration_retries' = _narration_retries
                /\ _narration_retries' < NarrationCap
          /\ (Repeated(history', 2) /\ ~Repeated(history', 3)) =>
                /\ exitPath' # "loop_detected"
                /\ \A i \in 1..Len(events') :
                       events'[i].type = "message" => events'[i].content # LoopMessage
                /\ \E i \in (Len(events) + 1)..Len(events') :
                       /\ events'[i].type = "thought"
                       /\ events'[i].content = CleanContent(LastTurn(history').content)
                /\ UNCHANGED _lessons_learned
      ]_vars

\* An invocation has ended on the third identical narration, declared a loop
C12_Witness ==
    /\ pc = "idle" /\ outcome = "returned"
    /\ exitPath = "loop_detected"
    /\ memoryAdds = 1
    /\ Repeated(history, 3)
    /\ Len(LastTurn(history).tool_calls) = 0
    /\ _narration_retries = 2
    /\ events[Len(events)] = Message(LoopMessage)

\* C13: when consecutive turns of one invocation have identical
\* (cleanContent, toolCallCount) fingerprints, a loop is declared and the turn
\* loop ends, whether or not those turns carry tool calls: the third
\* identical turn in a row, with tool calls as well as without, ends the turn
\* loop as a detected loop.
C13_RepeatedTurnIsLoop ==
    [][(TakesTurn /\ Repeated(history', 3)) =>
          /\ pc' = "commit"
          /\ exitPath' = "loop_detected"
          /\ _loop_detected'
      ]_vars

\* A step that processes a manage_tasks call with the given action
ManagesTasks(action) ==
    /\ ProcessesCall
    /\ HeadCall.name = "manage_tasks"
    /\ DictGet(HeadArgs, "action", None) = JStr(action)
HeadIndex == DictGet(HeadArgs, "index", None)
\* The two tasks agree in every field but status
SameButStatus(old, new) ==
    IF IsPyDict(old) /\ IsPyDict(new)
    THEN /\ DOMAIN new.v \ {"status"} = DOMAIN old.v \ {"status"}
         /\ \A key \in DOMAIN old.v \ {"status"} : new.v[key] = old.v[key]
    ELSE new = old

\* C14: manage_tasks update(index, status) leaves the task list unchanged for
\* every index outside [0, length), negative and non-integer indexes
\* included; for an integer index inside the range it changes only the status
\* field of the task at that index: length, order, every desc and every other
\* task stay as they were.
C14_UpdateFrame ==
    [][ManagesTasks("update") =>
          IF HeadIndex.t = "int" /\ 0 <= HeadIndex.v /\ HeadIndex.v < Len(tasks)
          THEN /\ Len(tasks') = Len(tasks)
               /\ \A j \in 1..Len(tasks) :
                     IF j = HeadIndex.v + 1
                     THEN SameButStatus(tasks[j], tasks'[j])
                     ELSE tasks'[j] = tasks[j]
          ELSE tasks' = tasks
      ]_vars

\* C15: over any sequence of manage_tasks operations the task list changes
\* length only by add, which keeps the prior list as a prefix and grows it by
\* exactly the number of new tasks, or by clear or a session reset, which
\* empty it whatever it held; no operation removes or reorders a single task.
HeadNewTasks == DictGet(HeadArgs, "tasks", JList(<<>>))
SessionReset == pc = "idle" /\ pc' = "idle" /\ history' = <<>>
C15_TasksGrowOrClear ==
    [][/\ Len(tasks') # Len(tasks) =>
             \/ /\ ManagesTasks("add")
                /\ Len(tasks') > Len(tasks)
                /\ SubSeq(tasks', 1, Len(tasks)) = tasks
             \/ /\ ManagesTasks("clear") \/ SessionReset
                /\ tasks' = <<>>
       /\ (ManagesTasks("add") /\ HeadNewTasks.t = "list") =>
             /\ tasks' = tasks \o HeadNewTasks.v
             /\ Len(tasks') = Len(tasks) + Len(HeadNewTasks.v)
       /\ (ManagesTasks("clear") \/ SessionReset) => tasks' = <<>>
       /\ tasks' # <<>> =>
             /\ Len(tasks') >= Len(tasks)
             /\ \A j \in 1..Len(tasks) : SameButStatus(tasks[j], tasks'[j])
      ]_vars

\* A second add has extended a list that already held two tasks, one of them
\* updated in between
C15_Witness ==
    /\ Len(tasks) = 3
    /\ tasks[1] = TaskA
    /\ SameButStatus(TaskB, tasks[2]) /\ tasks[2] # TaskB
    /\ tasks[3] = JStr("note")

\* What the argument string is: the JSON text of an object, the JSON text
\* of a string that holds the JSON text of an object, or anything else
IsObjectText(raw) == raw.k = "json" /\ raw.v.t = "obj"
IsEncodedObjectText(raw) ==
    /\ raw.k = "json"
    /\ raw.v.t = "enc"
    /\ raw.v.v.t = "obj"

\* C16: tool-argument parsing never raises and always yields an object: the
\* JSON text of an object yields that object; JSON text whose value is a
\* string is parsed a second time; invalid text, a failed second parse and
\* every result that is not an object yield the empty object.
C16_ParseArgsTotal ==
    \A k \in 1..Len(probe) :
        LET raw == probe[k].raw
            parsed == probe[k].parsed
        IN  /\ ~parsed.raised
            /\ parsed.value.t = "obj"
            /\ parsed.value =
                  IF IsObjectText(raw) THEN raw.v
                  ELSE IF IsEncodedObjectText(raw) THEN raw.v.v
                  ELSE JObj(EmptyDict)

\* A double-encoded object has been parsed to the object, and a string that
\* is no JSON to the empty object
C16_Witness ==
    /\ Len(probe) = 2
    /\ probe[1].raw = JsonText(JEnc(JObj([command |-> JStr("ls")])))
    /\ probe[1].parsed.value = JObj([command |-> JStr("ls")])
    /\ probe[2].raw = JsonText(JStr("ls"))
    /\ probe[2].parsed.value = JObj(EmptyDict)

\* C17: decoding does not depend on where the fragments are cut: for a text
\* cut into fragments at any positions, inside a tag as well, the final
\* cleanContent and the final thought text are those of decoding the whole
\* text as a single fragment.
C17_DecodingIgnoresCuts ==
    \A k \in 1..Len(probe) :
        LET whole == DecodeStream("", "", <<>>, <<JoinWith(probe[k].chunks, "")>>)
        IN  /\ probe[k].clean_content = CleanContent(whole.full_content)
            /\ probe[k].current_thought = whole.current_thought

\* The last assistant message of the history, and the calls of it that the
\* tool loop has already processed
LastAssistant(hist) ==
    CHOOSE i \in 0..Len(hist) :
        /\ i > 0 => IsAssistant(hist[i])
        /\ \A j \in (i + 1)..Len(hist) : ~IsAssistant(hist[j])
TurnCalls(hist) == ActiveToolCalls(hist[LastAssistant(hist)].tool_calls)
ToolResultsIn(evts, from) ==
    Cardinality({i \in (from + 1)..Len(evts) : evts[i].type = "tool_result"})

\* C18: in every turn whose tool calls are processed, history receives the
\* assistant message first and then exactly one tool message per processed
\* call, in the order of the calls and carrying the id of its call; the calls
\* are processed one after the other in that order, each gives exactly one
\* tool_result event, and the next model call starts only after all of them.
C18_ToolMessagesInCallOrder ==
    /\ [](pc = "tools" =>
            LET a == LastAssistant(history)
                calls == TurnCalls(history)
                n == Len(calls) - Len(active_tool_calls)
            IN  /\ a > 0
                /\ n >= 0
                /\ active_tool_calls = SubSeq(calls, n + 1, Len(calls))
                /\ Len(history) = a + n
                /\ \A j \in 1..n :
                      /\ history[a + j].role = "tool"
                      /\ history[a + j].tool_call_id = calls[j].id)
    /\ [][/\ ProcessesCall =>
                /\ Len(history') = Len(history) + 1
                /\ history'[Len(history')].role = "tool"
                /\ history'[Len(history')].tool_call_id = HeadCall.id
                /\ SubSeq(history', 1, Len(history)) = history
                /\ ToolResultsIn(events', Len(events)) = 1
                /\ events'[Len(events')].type = "tool_result"
                /\ events'[Len(events')].name = HeadCall.name
                /\ LogsHeadCall
          /\ (pc = "tools" /\ pc' # "tools") => Len(active_tool_calls) = 1 \/ outcome' = "returned"
          /\ TakesTurn => active_tool_calls = <<>>
         ]_vars

\* C19: in every reachable state of an agent, over any sequence of
\* invocations and clear_history calls, a non-empty history has a system
\* message first and no system message anywhere else; at the start of an
\* invocation that message's content is rewritten in place with the context
\* just retrieved, and no system message is appended.
C19_OneSystemMessageFirst ==
    /\ [](Len(history) > 0 =>
            /\ history[1].role = "system"
            /\ \A i \in 2..Len(history) : history[i].role # "system")
    /\ [][StartsInvocation =>
            /\ Len(history') = (IF Len(history) = 0 THEN 2 ELSE Len(history) + 1)
            /\ history'[1].role = "system"
            /\ \E context \in Contexts :
                   history'[1].content = FullSystemPrompt(context, _lessons_learned)
            /\ \A i \in 2..Len(history) : history'[i] = history[i]
            /\ history'[Len(history')] = Msg("user", user_text')
         ]_vars

\* A later invocation has rewritten the system message of a history that
\* already held an earlier invocation: it now carries the lesson learned
\* since and the context retrieved for this utterance
C19_Witness ==
    /\ pc = "loop" /\ turn = 0
    /\ Len(history) > 3
    /\ Len(_lessons_learned) = 1
    /\ history[1] = Msg("system", FullSystemPrompt(JList(<<JStr("old note")>>), _lessons_learned))
    /\ Cardinality({i \in 1..Len(history) : IsUtterance(history[i])}) = 2

\* result = f"Error: {str(e)}" as the claims below read it
ErrorString == JStr("Error: " \o ToolErrorText)

\* C20: an exception raised by the tool-execution collaborator for one call
\* is caught: a thought reporting the error is emitted, the call's tool_result
\* and its tool message in history carry an error string, the remaining calls
\* of the turn and the following turns still run, and no exception leaves
\* run_agent because of it.
C20_ToolErrorsAreCaught ==
    /\ [](outcome = "raised" => exitPath \in {"router_error", "stream_error", "task_error"})
    /\ [][(ProcessesCall /\ LogsHeadCall /\ Logged.raised) =>
            /\ \E i \in (Len(events) + 1)..Len(events') :
                  /\ events'[i].type = "thought"
                  /\ events'[i].content = "Error in " \o HeadCall.name \o ": " \o ToolErrorText
            /\ events'[Len(events')] = ToolResultEvent(HeadCall.name, ErrorString)
            /\ history' = Append(history, ToolMsg(HeadCall, ErrorString))
            /\ outcome' = "running"
            /\ IF Len(active_tool_calls) > 1
               THEN pc' = "tools" /\ active_tool_calls' = Tail(active_tool_calls)
               ELSE pc' = "loop" /\ turn' = turn + 1
         ]_vars

\* The first call of a turn raised in call_tool, the second call of the same
\* turn ran after it, and the loop went on to the following turn
C20_Witness ==
    /\ pc = "loop" /\ outcome = "running" /\ turn > 0
    /\ \E i \in 1..(Len(callLog) - 1) :
          /\ callLog[i].raised /\ callLog[i].calls = 1
          /\ callLog[i + 1].calls = 1 /\ ~callLog[i + 1].raised

\* C21: only authentication-class errors from the model router propagate out
\* of run_agent; any other exception of the router, raised when the response
\* is requested or while its stream is consumed, ends the turn loop without
\* an exception leaving run_agent.
C21_OnlyAuthErrorsPropagate ==
    (outcome = "raised" /\ exitPath \in {"router_error", "stream_error"})
        => exc = AuthErrorText

\* an exception leaves run_agent in this step
ExceptionLeaves == outcome = "running" /\ outcome' = "raised"

\* C22: when an exception leaves run_agent, every message that was in history
\* before the failing step is still there in the same order, and the task
\* list, approved_hashes, trusted_tools and pending_hashes hold the values they
\* had immediately before the failing step.
C22_StateSurvivesException ==
    [][ExceptionLeaves =>
            /\ Len(history') >= Len(history)
            /\ SubSeq(history', 1, Len(history)) = history
            /\ tasks' = tasks
            /\ pending_hashes' = pending_hashes
            /\ approved_hashes' = approved_hashes
            /\ trusted_tools' = trusted_tools
       ]_vars

\* a step of run_agent that calls the model router
CallsModel == modelCalls' = modelCalls + 1

\* C23: a stop signal sent by the transport layer while a top-level invocation
\* is running is honored at the next turn boundary: once it is sent no new
\* model call is started for that invocation; only the model call that was
\* in flight when it was sent may complete.
C23_StopHonoredBetweenTurns ==
    [][(CallsModel /\ probe.stop[probe.cur].sent) =>
            /\ probe.stop[probe.cur].pc = "loop"
            /\ probe.stop[probe.cur].turn = turn
       ]_vars

\* C24: conversations of different clients share no mutable conversation
\* state: whenever the handler of a client is resumed, history, the task list,
\* the pending, approved and trusted sets and the loop and narration counters
\* are as that client's handler left them.
C24_ConversationsAreIsolated ==
    [][probe'.cur # probe.cur => AgentState' = probe.left[probe'.cur]]_vars

\* the step in which the turn range runs out
TurnBoundEnds == exitPath # "turn_bound" /\ exitPath' = "turn_bound"

\* C25: a top-level invocation makes at most 50 model calls; when every
\* router stream and every tool call returns, run_agent terminates; and when
\* the 50-turn bound is what ends the loop, no message or error event is
\* emitted for it and the invocation completes normally.
C25_TurnBound ==
    /\ [](modelCalls <= max_turns)
    /\ [][TurnBoundEnds =>
            /\ pc' = "commit" /\ outcome' = "running"
            /\ \A i \in (Len(events) + 1)..Len(events') :
                  events'[i].type \notin {"message", "error"}
         ]_vars
    /\ []((exitPath = "turn_bound" /\ pc = "idle") =>
            /\ outcome = "returned" /\ memoryAdds = 1
            /\ \A i \in 1..Len(events) : events[i].type \notin {"message", "error"})
    /\ (outcome = "running") ~> (outcome # "running")

\* The invocation has made fifty model calls and returned because the range
\* ran out
C25_Witness ==
    /\ modelCalls = max_turns /\ exitPath = "turn_bound"
    /\ pc = "idle" /\ outcome = "returned"

\* C26: in every reachable state, after any sequence of invocations,
\* approvals, denials and blocked calls, no hash is in both pending_hashes
\* and approved_hashes.
C26_PendingApprovedDisjoint == pending_hashes \cap approved_hashes = {}

\* A hash that was pending has been approved, and the call with that hash has
\* then passed the gate and run
C26_Witness ==
    /\ approved_hashes # {}
    /\ \E i \in 1..Len(callLog) :
          /\ callLog[i].sensitive /\ ~callLog[i].blocked /\ callLog[i].calls = 1
          /\ ToolHash(callLog[i].name, callLog[i].args) \in approved_hashes

\* the first turn of an invocation: the model answers and the loop check runs
FirstTurn == pc = "loop" /\ turn = 0 /\ CallsModel /\ outcome' = "running"

\* C27: at the start of every top-level invocation both the loop counter and
\* the last fingerprint are reset, so the first turn of an invocation is
\* never counted as a repeat of a turn of an earlier invocation: the counter
\* is 0 after the first turn's loop check.
C27_DetectorResetPerInvocation ==
    /\ [][StartsInvocation =>
            _system_instruction_count' = 0 /\ _last_response_hash' = NoHash]_vars
    /\ [][FirstTurn => _system_instruction_count' = 0]_vars

\* the assistant message of the turn taken in this step, its cleaned content,
\* and the number of message events the step emits
TurnMessage == history'[Len(history) + 1]
TurnContent == CleanContent(TurnMessage.content)
MessagesEmitted ==
    Cardinality({i \in (Len(events) + 1)..Len(events') : events'[i].type = "message"})
EmitsOneMessage(content) ==
    /\ MessagesEmitted = 1
    /\ \E i \in (Len(events) + 1)..Len(events') :
          events'[i].type = "message" /\ events'[i].content = content

\* C28: a turn with no tool calls that is turn 0 or has empty clean_content
\* always ends the turn loop: it emits exactly one message with clean_content
\* when that is non-empty, the canned empty-response message exactly when it
\* is turn 0 and clean_content is empty, and no message at all when turn > 0
\* and clean_content is empty; no nudge is appended to history and no further
\* model call is made.
C28_FinalAnswerEndsLoop ==
    [][(TakesTurn /\ Len(TurnMessage.tool_calls) = 0 /\ (turn = 0 \/ TurnContent = "")) =>
            /\ pc' = "commit" /\ turn' = turn
            /\ history' = Append(history, TurnMessage)
            /\ IF TurnContent # "" THEN EmitsOneMessage(TurnContent)
               ELSE IF turn = 0 THEN EmitsOneMessage(EmptyResponseMessage)
               ELSE MessagesEmitted = 0
       ]_vars

\* After a turn with tool calls, and with nothing pending, the model answered
\* with nothing but a thought: the loop has ended as a final answer and the
\* invocation has emitted no message
C28_Witness ==
    /\ pc = "commit" /\ exitPath = "final" /\ turn > 0
    /\ pending_hashes = {}
    /\ history[Len(history)].content # ""
    /\ CleanContent(history[Len(history)].content) = ""
    /\ \A i \in 1..Len(events) : events[i].type # "message"

\* The turn taken in this step is narration: after the first turn, no tool
\* calls, a non-empty text that is no question, and no permission pending
Narrates ==
    /\ TakesTurn /\ turn > 0
    /\ Len(TurnMessage.tool_calls) = 0
    /\ TurnContent # ""
    /\ ~IsQuestion(TurnContent, QuestionLenNoTools)
    /\ pending_hashes = {}
\* what the claim says of a narration turn
NarrationHandled ==
    /\ \E i \in (Len(events) + 1)..Len(events') :
          events'[i].type = "thought" /\ events'[i].content = TurnContent
    /\ _narration_retries' = _narration_retries + 1
    /\ IF _narration_retries' >= 3
       THEN /\ EmitsOneMessage(TurnContent)
            /\ events'[Len(events')].type = "message"
            /\ history' = Append(history, TurnMessage)
            /\ pc' = "commit"
       ELSE /\ MessagesEmitted = 0
            /\ history' = history \o <<TurnMessage, Msg("user", NudgeText)>>
            /\ pc' = "loop" /\ turn' = turn + 1
IsNudge(m) == m.role = "user" /\ m.content = NudgeText
\* three nudges with nothing but narration between them
ThreeNudgesInARow(hist) ==
    \E i \in 1..(Len(hist) - 4) :
        /\ IsNudge(hist[i]) /\ IsNudge(hist[i + 2]) /\ IsNudge(hist[i + 4])
        /\ IsAssistant(hist[i + 1]) /\ IsAssistant(hist[i + 3])
\* a turn with tool calls resets the counter; never three nudges in a row
NudgesAreBounded ==
    /\ [][(TakesTurn /\ Len(TurnMessage.tool_calls) > 0) => _narration_retries' = 0]_vars
    /\ [](~ThreeNudgesInARow(history))

\* C29: a no-tool-call turn at turn > 0 whose non-empty content is narration
\* (not a question, no pending permission) is emitted as a thought and not as
\* a message, increments the narration-retry counter, appends a nudge to
\* history and proceeds to the next model call; when the counter reaches 3 the
\* content is emitted as a final message and the loop ends.  The counter is
\* reset by any turn with tool calls, so an invocation never sends more than
\* two nudges in a row.
C29_NarrationIsNudged ==
    /\ [][Narrates => NarrationHandled]_vars
    /\ NudgesAreBounded

\* C29, amended: the same, for every narration turn that the loop check does
\* not declare a loop; the third identical narration in a row is declared a
\* loop instead (C12) and is neither emitted nor counted.
C29_NarrationIsNudgedUnlessLoop ==
    /\ [][(Narrates /\ ~Repeated(history', 3)) => NarrationHandled]_vars
    /\ [][(Narrates /\ Repeated(history', 3)) =>
            /\ pc' = "commit" /\ exitPath' = "loop_detected"
            /\ _narration_retries' = _narration_retries]_vars
    /\ NudgesAreBounded

\* After two nudges in a row the third narration, different from the one
\* before, has been emitted as the final message and the loop has ended
C29_Witness ==
    /\ pc = "commit" /\ exitPath = "narration_cap"
    /\ _narration_retries = 3
    /\ Len(history) >= 5
    /\ IsNudge(history[Len(history) - 1]) /\ IsNudge(history[Len(history) - 3])
    /\ events[Len(events)] = Message(CleanContent(history[Len(history)].content))

\* a short trailing question, as the rule for turns with tool calls reads it:
\* a question mark among the last five characters, fewer than 400 in all
ShortTrailingQuestion(content) ==
    Contains(Tail_n(Strip(content), 5), "?") /\ Len(content) < 400

\* C30: when a turn has tool calls and its clean_content is a short trailing
\* question, the content is emitted as a message, a waiting-for-user note is
\* appended to history, and the turn loop ends before any tool call of that
\* turn is processed: no tool_call event, no call_tool execution, no change
\* of the permission state and no change of the task list come from them.
C30_QuestionBeforeTools ==
    /\ [][(TakesTurn /\ Len(TurnMessage.tool_calls) > 0 /\ ShortTrailingQuestion(TurnContent)) =>
            /\ EmitsOneMessage(TurnContent)
            /\ history' = history \o <<TurnMessage, Msg("user", WaitingText)>>
            /\ pc' = "commit" /\ exitPath' = "question"
            /\ active_tool_calls' = <<>>
            /\ \A i \in (Len(events) + 1)..Len(events') :
                  events'[i].type \notin {"tool_call", "tool_result"}
            /\ callLog' = callLog
            /\ UNCHANGED <<tasks, pending_hashes, approved_hashes, trusted_tools>>
         ]_vars
    /\ [][pc = "commit" =>
            /\ callLog' = callLog /\ events' = events /\ history' = history
            /\ UNCHANGED <<tasks, pending_hashes, approved_hashes, trusted_tools>>
            /\ pc' = "idle"]_vars

\* An invocation has ended on a first turn that asked a question and carried a
\* tool call: the note is the last message of history and no call was processed
C30_Witness ==
    /\ pc = "idle" /\ outcome = "returned" /\ exitPath = "question"
    /\ memoryAdds = 1
    /\ Len(history) >= 2
    /\ history[Len(history)] = Msg("user", WaitingText)
    /\ Len(history[Len(history) - 1].tool_calls) > 0
    /\ callLog = <<>>
    /\ \A i \in 1..Len(events) : events[i].type \notin {"tool_call", "tool_result"}

\* The fragments of one index in arrival order, the indexes seen in ascending
\* order, and the first id a sequence of fragments carries
OfIndex(tc_chunks, idx) == SelectSeq(tc_chunks, LAMBDA f : f.index = idx)
IndexesSeen(tc_chunks) == Sorted({tc_chunks[i].index : i \in 1..Len(tc_chunks)})
RECURSIVE FirstId(_)
FirstId(tc_chunks) ==
    IF Len(tc_chunks) = 0 THEN NoId
    ELSE IF Head(tc_chunks).id # NoId THEN Head(tc_chunks).id
    ELSE FirstId(Tail(tc_chunks))
Names(tc_chunks) == [i \in 1..Len(tc_chunks) |-> tc_chunks[i].name]
Arguments(tc_chunks) == [i \in 1..Len(tc_chunks) |-> tc_chunks[i].arguments]

\* C31: when fragments of the same stream index carry different non-empty
\* ids, the assembled tool call keeps the first non-empty id received for
\* that index; later id fragments do not overwrite it.
C31_FirstIdWins ==
    \A n \in 1..Len(probe) :
        LET tc_chunks == probe[n].tc_chunks
            calls == probe[n].final_tool_calls
            indexes == IndexesSeen(tc_chunks)
        IN  \A i \in 1..Len(calls) :
                calls[i].id = FirstId(OfIndex(tc_chunks, indexes[i]))

\* C32: for any interleaving of fragments across stream indexes, the tool call
\* assembled for each index has the name and the arguments that are the
\* concatenation of that index's pieces in arrival order, with nothing of
\* another index in them, and the final list has one call per index in
\* ascending order of the indexes, whichever index appeared first.
C32_PiecesConcatenatedPerIndex ==
    \A n \in 1..Len(probe) :
        LET tc_chunks == probe[n].tc_chunks
            calls == probe[n].final_tool_calls
            indexes == IndexesSeen(tc_chunks)
        IN  /\ Len(calls) = Len(indexes)
            /\ \A i \in 1..Len(calls) :
                  /\ calls[i].name = JoinWith(Names(OfIndex(tc_chunks, indexes[i])), "")
                  /\ calls[i].arguments =
                         JoinWith(Arguments(OfIndex(tc_chunks, indexes[i])), "")

\* A stream in which index 1 appeared before index 0 and index 0 came in two
\* pieces around it has been assembled
C32_Witness ==
    /\ Len(probe) = 1
    /\ Len(probe[1].tc_chunks) = 3
    /\ probe[1].tc_chunks[1].index = 0 /\ probe[1].tc_chunks[1].name = "ba"
    /\ probe[1].tc_chunks[2].index = 1 /\ probe[1].tc_chunks[2].name = "ls"
    /\ probe[1].tc_chunks[3].index = 0 /\ probe[1].tc_chunks[3].name = "sh"
    /\ Len(probe[1].final_tool_calls) = 2
    /\ probe[1].final_tool_calls[1].name = "bash"

\* C33: the content of the assistant message appended to history for a turn
\* is clean_content, the accumulated content with the thought tags stripped:
\* the same text that is shown to the user as the turn's message.
C33_HistoryHoldsCleanContent ==
    [][TakesTurn =>
          \A i \in (Len(events) + 1)..Len(events') :
              (/\ events'[i].type = "message"
               /\ events'[i].content \notin {LoopMessage, EmptyResponseMessage})
                  => /\ events'[i].content = TurnContent
                     /\ TurnMessage.content = events'[i].content
      ]_vars

\* the text holds an opening thought tag
HasOpeningTag(text) == OpeningTags(text, 1) # {}

\* C34: stripping never fails and removes every thought block: for any
\* accumulated content, clean_content contains no opening <thought> or
\* <think> tag; a content without an opening tag loses nothing but the white
\* space around it, and a content that starts with an opening tag that is
\* never closed is stripped to nothing.
C34_NoThoughtTagSurvives ==
    \A n \in 1..Len(probe) :
        LET full_content == probe[n].full_content
            clean_content == probe[n].clean_content
        IN  /\ ~HasOpeningTag(clean_content)
            /\ ~HasOpeningTag(full_content) => clean_content = Strip(full_content)
            /\ \A tag \in ThoughtTags :
                  (/\ Slice(full_content, 1, Len(tag) + 2) = "<" \o tag \o ">"
                   /\ FindFrom(full_content, "</" \o tag \o ">", 1) = 0)
                      => clean_content = ""

\* the tool messages after position i of hist that answer the call with this id
AnswersTo(hist, i, id) ==
    {j \in (i + 1)..Len(hist) : hist[j].role = "tool" /\ hist[j].tool_call_id = id}

\* C35: at every point where a model call is made or a top-level invocation
\* has ended, every tool call id listed in the tool_calls of an assistant
\* message in history is matched by exactly one later tool message with that
\* tool_call_id: no assistant tool call is left unanswered in history.
C35_EveryToolCallAnswered ==
    pc \in {"loop", "idle"} =>
        \A i \in 1..Len(history) :
            IsAssistant(history[i]) =>
                \A k \in 1..Len(history[i].tool_calls) :
                    Cardinality(AnswersTo(history, i, history[i].tool_calls[k].id)) = 1

\* C36: while pending_hashes is non-empty, a turn at turn > 0 with no tool
\* calls and non-empty clean_content is always treated as a permission
\* request: its content is emitted as a message and the turn loop ends; it is
\* never followed by a nudge and the narration-retry counter is not
\* incremented.
C36_PendingMakesItARequest ==
    [][(/\ TakesTurn /\ turn > 0
        /\ Len(TurnMessage.tool_calls) = 0
        /\ TurnContent # ""
        /\ pending_hashes # {}) =>
            /\ EmitsOneMessage(TurnContent)
            /\ events'[Len(events')] = Message(TurnContent)
            /\ pc' = "commit" /\ exitPath' = "question"
            /\ history' = Append(history, TurnMessage)
            /\ _narration_retries' = _narration_retries
       ]_vars

\* With a permission pending, a later turn that said something that is no
\* question has ended the loop with that text as the message
C36_Witness ==
    /\ pc = "commit" /\ exitPath = "question" /\ turn > 0
    /\ pending_hashes # {}
    /\ IsAssistant(history[Len(history)])
    /\ ~ShortTrailingQuestion(CleanContent(history[Len(history)].content))
    /\ events[Len(events)] = Message(CleanContent(history[Len(history)].content))

\* a task list every entry of which is an object
WellFormedTasks(task_list) == \A i \in 1..Len(task_list) : IsPyDict(task_list[i])
TaskUpdatesIn(evts, from) ==
    Cardinality({i \in (from + 1)..Len(evts) : evts[i].type = "task_update"})

\* C37: processing a manage_tasks call never raises out of run_agent, whatever
\* arguments the model supplies: malformed input leaves the task list
\* unchanged or well-formed and still yields a task_update and a tool_result.
C37_ManageTasksNeverRaises ==
    [][(ProcessesCall /\ ~HeadIsTool) =>
            /\ outcome' # "raised"
            /\ tasks' = tasks \/ WellFormedTasks(tasks')
            /\ TaskUpdatesIn(events', Len(events)) = 1
            /\ ToolResultsIn(events', Len(events)) = 1
       ]_vars

\* run_agent is called with an empty utterance in this step
CalledWithNothing == probe'.calls = probe.calls + 1 /\ probe'.said = ""

\* C38: run_agent called with an empty utterance emits no event, makes no
\* memory, router or tool call, and leaves history, tasks, pending_hashes,
\* approved_hashes, trusted_tools and the loop and narration counters exactly
\* as they were: pending permissions are neither approved nor discarded.
C38_EmptyUtteranceDoesNothing ==
    [][CalledWithNothing =>
            /\ events' = events
            /\ memoryAdds' = memoryAdds /\ modelCalls' = modelCalls /\ callLog' = callLog
            /\ history' = history /\ tasks' = tasks
            /\ pending_hashes' = pending_hashes
            /\ approved_hashes' = approved_hashes
            /\ trusted_tools' = trusted_tools
            /\ _system_instruction_count' = _system_instruction_count
            /\ _last_response_hash' = _last_response_hash
            /\ _loop_detected' = _loop_detected
            /\ _narration_retries' = _narration_retries
            /\ pc' = pc
       ]_vars

\* An empty utterance has arrived while a permission was pending, after an
\* invocation that emitted events
C38_Witness ==
    /\ probe.calls > 1 /\ probe.said = ""
    /\ pc = "idle"
    /\ pending_hashes # {}
    /\ events # <<>>
    /\ history # <<>>

\* the conversation is reset in this step
ClearsHistory == pc = "idle" /\ pc' = "idle" /\ history # <<>> /\ history' = <<>>
UserMessages(hist) == {i \in 1..Len(hist) : hist[i].role = "user"}

\* C39: clear_history empties history and the task list and resets the loop
\* counter, the last fingerprint and the loop flag, and changes nothing else:
\* pending_hashes, approved_hashes, trusted_tools and the recorded lessons
\* keep their values, so a tool trusted before the reset still passes the
\* permission gate after it.
C39_ResetKeepsPermissions ==
    /\ [][ClearsHistory =>
            /\ tasks' = <<>>
            /\ _system_instruction_count' = 0
            /\ _last_response_hash' = NoHash
            /\ _loop_detected' = FALSE
            /\ pending_hashes' = pending_hashes
            /\ approved_hashes' = approved_hashes
            /\ trusted_tools' = trusted_tools
            /\ _lessons_learned' = _lessons_learned
            /\ _narration_retries' = _narration_retries
            /\ UNCHANGED <<turn, user_text, active_tool_calls, events, callLog,
                           memoryAdds, modelCalls, outcome, exitPath, exc>>
         ]_vars
    /\ [][(ProcessesCall /\ HeadIsTool /\ HeadCall.name \in trusted_tools) =>
            /\ LogsHeadCall /\ ~Logged.blocked /\ Logged.calls = 1
            /\ pending_hashes' = pending_hashes
         ]_vars

\* A tool was trusted by a reply, the conversation was reset, and in the one
\* invocation since then (a new request: nothing was pending when it began)
\* a sensitive call with a hash that was never approved
\* has been executed
C39_Witness ==
    /\ trusted_tools # {}
    /\ Cardinality(UserMessages(history)) = 1
    /\ \A i \in UserMessages(history) : history[i].content \in Requests \ Replies
    /\ Len(callLog) > 0
    /\ LET last == callLog[Len(callLog)]
       IN  /\ last.sensitive /\ ~last.blocked /\ last.calls = 1
           /\ last.name \in trusted_tools
           /\ ToolHash(last.name, last.args) \notin approved_hashes

====
